---- MODULE Spec2Model ----
(***************************************************************************)
(* The mock API server of the Instagram-automation repository              *)
(* (src/mock_api_server.py) with its request filter: SecurityValidator,    *)
(* the security_middleware decorator, the route handlers and the mock      *)
(* database they write to.                                                 *)
(*                                                                         *)
(* A Python string is a sequence of one-character strings, so that         *)
(* html.escape, str.lower, slicing and the regular expressions of          *)
(* DANGEROUS_PATTERNS are computed character by character.                 *)
(***************************************************************************)
EXTENDS Integers, Sequences, FiniteSets, TLC

(***************************************************************************)
(* Characters                                                              *)
(***************************************************************************)
\* The character '\x00'.
NUL == "NUL"
\* A character outside ASCII (the emoji of the repository's test data).
Emoji == "EMOJI"
\* The backquote character.
Backquote == "BACKQUOTE"

LowerSeq ==
  << "a", "b", "c", "d", "e", "f", "g", "h", "i", "j", "k", "l", "m",
     "n", "o", "p", "q", "r", "s", "t", "u", "v", "w", "x", "y", "z" >>
UpperSeq ==
  << "A", "B", "C", "D", "E", "F", "G", "H", "I", "J", "K", "L", "M",
     "N", "O", "P", "Q", "R", "S", "T", "U", "V", "W", "X", "Y", "Z" >>
LowerLetters == {LowerSeq[i] : i \in 1..Len(LowerSeq)}
UpperLetters == {UpperSeq[i] : i \in 1..Len(UpperSeq)}
Digits == {"0", "1", "2", "3", "4", "5", "6", "7", "8", "9"}
\* \w, \d and \s of Python's re on the characters above.
WordChars == LowerLetters \cup UpperLetters \cup Digits \cup {"_"}
SpaceChars == {" ", "\t", "\n", "\r"}

\* The sequence f as an explicit tuple: TLC keeps a function constructor
\* unevaluated and computes it anew on every Len and every application.
Tuple(f) == f \o << >>

\* str.lower() on one character.
LowerTable == [c \in UpperLetters |-> LowerSeq[CHOOSE i \in 1..Len(UpperSeq) : UpperSeq[i] = c]]
lower_char(c) == IF c \in UpperLetters THEN LowerTable[c] ELSE c
\* str.lower()
str_lower(s) == Tuple([i \in 1..Len(s) |-> lower_char(s[i])])

(***************************************************************************)
(* html.escape(s) with quote=True: & < > " ' are replaced by entities.     *)
(***************************************************************************)
escape_char(c) ==
  CASE c = "&"  -> << "&", "a", "m", "p", ";" >>
    [] c = "<"  -> << "&", "l", "t", ";" >>
    [] c = ">"  -> << "&", "g", "t", ";" >>
    [] c = "\"" -> << "&", "q", "u", "o", "t", ";" >>
    [] c = "'"  -> << "&", "#", "x", "2", "7", ";" >>
    [] OTHER    -> << c >>

RECURSIVE html_escape(_)
html_escape(s) ==
  IF Len(s) = 0 THEN << >>
  ELSE IF Len(s) = 1 THEN escape_char(s[1])
  ELSE LET m == Len(s) \div 2
       IN  html_escape(SubSeq(s, 1, m)) \o html_escape(SubSeq(s, m + 1, Len(s)))

(***************************************************************************)
(* Regular expressions of SecurityValidator.DANGEROUS_PATTERNS, each       *)
(* searched (re.search) in an already lower-cased string.                  *)
(***************************************************************************)
\* The literal w occurs in s starting at position i.
LitAt(s, i, w) ==
  /\ i >= 1
  /\ i + Len(w) - 1 <= Len(s)
  /\ s[i] = w[1]
  /\ SubSeq(s, i, i + Len(w) - 1) = w

HasLit(s, w) == \E i \in 1..Len(s) : LitAt(s, i, w)

\* \b before position i, where position i holds a word character.
BoundaryBefore(s, i) == i = 1 \/ s[i - 1] \notin WordChars
\* \b after position j, where position j holds a word character.
BoundaryAfter(s, j) == j = Len(s) \/ s[j + 1] \notin WordChars

\* \b(w)\b matches at position i.
WordAt(s, i, w) ==
  /\ LitAt(s, i, w)
  /\ BoundaryBefore(s, i)
  /\ BoundaryAfter(s, i + Len(w) - 1)

\* The first position >= i of s whose character is outside class C
\* (Len(s) + 1 when there is none): where a greedy C* starting at i stops.
SkipClass(s, i, C) ==
  LET rest == {j \in i..Len(s) : s[j] \notin C}
  IN  IF rest = {} THEN Len(s) + 1
      ELSE CHOOSE j \in rest : \A k \in rest : j <= k

SQL_KEYWORDS ==
  { << "s", "e", "l", "e", "c", "t" >>, << "i", "n", "s", "e", "r", "t" >>,
    << "u", "p", "d", "a", "t", "e" >>, << "d", "e", "l", "e", "t", "e" >>,
    << "d", "r", "o", "p" >>, << "c", "r", "e", "a", "t", "e" >>,
    << "a", "l", "t", "e", "r" >>, << "e", "x", "e", "c" >>,
    << "u", "n", "i", "o", "n" >>, << "s", "c", "r", "i", "p", "t" >> }

COMMAND_WORDS ==
  { << "c", "a", "t" >>, << "l", "s" >>, << "p", "w", "d" >>,
    << "w", "h", "o", "a", "m", "i" >>, << "i", "d" >>,
    << "u", "n", "a", "m", "e" >>, << "p", "s" >>,
    << "n", "e", "t", "s", "t", "a", "t" >>, << "w", "g", "e", "t" >>,
    << "c", "u", "r", "l" >>, << "n", "c" >>,
    << "t", "e", "l", "n", "e", "t" >>, << "s", "s", "h" >> }

\* The character class of the first command-injection pattern: ; & | $ ( ) { }
\* [ ] backslash and the backquote.
COMMAND_CHARS == {";", "&", "|", Backquote, "$", "(", ")", "{", "}", "[", "]", "\\"}

\* \b(OR|AND)\s+\d+\s*=\s*\d+ matches with the word w at position i.
TautologyAt(s, i, w) ==
  /\ LitAt(s, i, w)
  /\ BoundaryBefore(s, i)
  /\ LET a == i + Len(w)
         b == SkipClass(s, a, SpaceChars)
         c == SkipClass(s, b, Digits)
         d == SkipClass(s, c, SpaceChars)
     IN  /\ b > a
         /\ c > b
         /\ d <= Len(s)
         /\ s[d] = "="
         /\ LET e == SkipClass(s, d + 1, SpaceChars)
            IN  e <= Len(s) /\ s[e] \in Digits

\* <script[^>]*>.*?</script> matches starting at position i.
ScriptTagAt(s, i) ==
  /\ LitAt(s, i, << "<", "s", "c", "r", "i", "p", "t" >>)
  /\ LET g == SkipClass(s, i + 7, {c \in {s[j] : j \in 1..Len(s)} : c # ">"})
     IN  /\ g <= Len(s)
         /\ \E k \in (g + 1)..Len(s) :
              /\ LitAt(s, k, << "<", "/", "s", "c", "r", "i", "p", "t", ">" >>)
              /\ \A j \in (g + 1)..(k - 1) : s[j] # "\n"

\* w\s*= matches at position i (onload\s*= and its like).
HandlerAt(s, i, w) ==
  /\ LitAt(s, i, w)
  /\ LET e == SkipClass(s, i + Len(w), SpaceChars)
     IN  e <= Len(s) /\ s[e] = "="

\* The names of the thirteen patterns, in the order of the list.
DANGEROUS_PATTERNS ==
  << "sql_keyword", "sql_comment", "sql_tautology",
     "xss_script", "javascript", "vbscript", "onload", "onerror", "onclick",
     "command_char", "command_word",
     "dot_dot", "encoded_dot_dot" >>

\* re.search(pattern, s, re.IGNORECASE) on a lower-cased s.
re_search(pattern, s) ==
  CASE pattern = "sql_keyword" ->
         \E i \in 1..Len(s) : \E w \in SQL_KEYWORDS : WordAt(s, i, w)
    [] pattern = "sql_comment" ->
         \/ HasLit(s, << "-", "-" >>)
         \/ HasLit(s, << "#" >>)
         \/ HasLit(s, << "/", "*" >>)
         \/ HasLit(s, << "*", "/" >>)
    [] pattern = "sql_tautology" ->
         \E i \in 1..Len(s) :
           \/ TautologyAt(s, i, << "o", "r" >>)
           \/ TautologyAt(s, i, << "a", "n", "d" >>)
    [] pattern = "xss_script" -> \E i \in 1..Len(s) : ScriptTagAt(s, i)
    [] pattern = "javascript" ->
         HasLit(s, << "j", "a", "v", "a", "s", "c", "r", "i", "p", "t", ":" >>)
    [] pattern = "vbscript" ->
         HasLit(s, << "v", "b", "s", "c", "r", "i", "p", "t", ":" >>)
    [] pattern = "onload" ->
         \E i \in 1..Len(s) : HandlerAt(s, i, << "o", "n", "l", "o", "a", "d" >>)
    [] pattern = "onerror" ->
         \E i \in 1..Len(s) : HandlerAt(s, i, << "o", "n", "e", "r", "r", "o", "r" >>)
    [] pattern = "onclick" ->
         \E i \in 1..Len(s) : HandlerAt(s, i, << "o", "n", "c", "l", "i", "c", "k" >>)
    [] pattern = "command_char" -> \E i \in 1..Len(s) : s[i] \in COMMAND_CHARS
    [] pattern = "command_word" ->
         \E i \in 1..Len(s) : \E w \in COMMAND_WORDS : WordAt(s, i, w)
    [] pattern = "dot_dot" ->
         \/ HasLit(s, << ".", ".", "/" >>)
         \/ HasLit(s, << ".", ".", "\\" >>)
    [] pattern = "encoded_dot_dot" ->
         \/ HasLit(s, << "%", "2", "e", "%", "2", "e", "%", "2", "f" >>)
         \/ HasLit(s, << "%", "2", "e", "%", "2", "e", "%", "5", "c" >>)

(***************************************************************************)
(* JSON values as request.get_json() returns them: str, int/float, bool,   *)
(* None, list and dict.  A dict keeps its keys (strings) in insertion      *)
(* order in keys, with the value of keys[i] in kids[i]; a list keeps its   *)
(* items in kids.                                                          *)
(***************************************************************************)
JStr(s) == [t |-> "str", s |-> s, n |-> 0, keys |-> << >>, kids |-> << >>]
JNum(n) == [t |-> "num", s |-> << >>, n |-> n, keys |-> << >>, kids |-> << >>]
JBool(b) == [t |-> "bool", s |-> << >>, n |-> IF b THEN 1 ELSE 0, keys |-> << >>, kids |-> << >>]
JNull == [t |-> "null", s |-> << >>, n |-> 0, keys |-> << >>, kids |-> << >>]
JList(items) == [t |-> "list", s |-> << >>, n |-> 0, keys |-> << >>, kids |-> items]
JDict(ks, vs) == [t |-> "dict", s |-> << >>, n |-> 0, keys |-> ks, kids |-> vs]

\* bool(data): the truth value Python gives a JSON value.
Truthy(d) ==
  CASE d.t = "str"  -> Len(d.s) > 0
    [] d.t = "num"  -> d.n # 0
    [] d.t = "bool" -> d.n = 1
    [] d.t = "null" -> FALSE
    [] d.t = "list" -> Len(d.kids) > 0
    [] d.t = "dict" -> Len(d.keys) > 0

(***************************************************************************)
(* SecurityValidator                                                       *)
(***************************************************************************)
\* The length limit of sanitize_input.
MAX_INPUT_LENGTH == 10000

\* data.replace('\x00', '')
remove_null_bytes(s) == SelectSeq(s, LAMBDA c : c # NUL)

\* data[:limit]
truncate(s, limit) == IF Len(s) > limit THEN SubSeq(s, 1, limit) ELSE s

\* A variant of the str branch that limits the length first and escapes
\* after: the formula of C7 tells it from sanitize_str.
sanitize_str_limit_first(s) ==
  remove_null_bytes(html_escape(truncate(s, MAX_INPUT_LENGTH)))

\* The str branch of sanitize_input: escape, remove null bytes, limit length.
sanitize_str(s) == truncate(remove_null_bytes(html_escape(s)), MAX_INPUT_LENGTH)

\* SecurityValidator.sanitize_input
RECURSIVE sanitize_input(_)
sanitize_input(data) ==
  CASE data.t = "str"  -> JStr(sanitize_str(data.s))
    [] data.t = "dict" ->
         JDict(data.keys, Tuple([i \in 1..Len(data.kids) |-> sanitize_input(data.kids[i])]))
    [] data.t = "list" ->
         JList(Tuple([i \in 1..Len(data.kids) |-> sanitize_input(data.kids[i])]))
    [] OTHER -> data

\* The str branch of validate_input: no pattern is found in data.lower().
validate_str(s) ==
  LET data_lower == str_lower(s)
  IN  \A i \in 1..Len(DANGEROUS_PATTERNS) : ~re_search(DANGEROUS_PATTERNS[i], data_lower)

\* A variant of validate_input that looks at the values of a dict and not at
\* its keys: the formula of C6 tells it from validate_input.
RECURSIVE validate_input_values_only(_)
validate_input_values_only(data) ==
  CASE data.t = "str"  -> validate_str(data.s)
    [] data.t = "dict" ->
         \A i \in 1..Len(data.kids) : validate_input_values_only(data.kids[i])
    [] data.t = "list" ->
         \A i \in 1..Len(data.kids) : validate_input_values_only(data.kids[i])
    [] OTHER -> TRUE

\* A variant of validate_input that does not descend into dicts and lists:
\* the formula of C2 tells it from validate_input.
validate_input_str_only(data) ==
  IF data.t = "str" THEN validate_str(data.s) ELSE TRUE

\* SecurityValidator.validate_input
RECURSIVE validate_input(_)
validate_input(data) ==
  CASE data.t = "str"  -> validate_str(data.s)
    [] data.t = "dict" ->
         \A i \in 1..Len(data.keys) :
           validate_str(data.keys[i]) /\ validate_input(data.kids[i])
    [] data.t = "list" ->
         \A i \in 1..Len(data.kids) : validate_input(data.kids[i])
    [] OTHER -> TRUE

(***************************************************************************)
(* SecurityHardening (security-hardening.py): the four pattern sets, the   *)
(* four detectors and validate_input.                                      *)
(***************************************************************************)
\* The words of the second command-injection pattern of SecurityHardening.
HARDENING_COMMAND_WORDS ==
  { << "c", "a", "t" >>, << "l", "s" >>, << "p", "w", "d" >>,
    << "w", "h", "o", "a", "m", "i" >>, << "i", "d" >>,
    << "u", "n", "a", "m", "e" >>, << "p", "s" >>,
    << "n", "e", "t", "s", "t", "a", "t" >>, << "i", "f", "c", "o", "n", "f", "i", "g" >>,
    << "p", "i", "n", "g" >>, << "w", "g", "e", "t" >>,
    << "c", "u", "r", "l" >>, << "n", "c" >>,
    << "t", "e", "l", "n", "e", "t" >>, << "s", "s", "h" >>,
    << "f", "t", "p" >> }

\* \b(w)\s+['"].*['"] matches with the word w at position i.
QuotedAt(s, i, w) ==
  /\ LitAt(s, i, w)
  /\ BoundaryBefore(s, i)
  /\ LET a == i + Len(w)
         b == SkipClass(s, a, SpaceChars)
     IN  /\ b > a
         /\ b <= Len(s)
         /\ s[b] \in {"'", "\""}
         /\ \E k \in (b + 1)..Len(s) :
              /\ s[k] \in {"'", "\""}
              /\ \A j \in (b + 1)..(k - 1) : s[j] # "\n"

\* w[^>]*> matches at position i (<iframe[^>]*> and its like).
TagAt(s, i, w) ==
  /\ LitAt(s, i, w)
  /\ \E k \in (i + Len(w))..Len(s) : s[k] = ">"

\* The names of the patterns of the four sets, in the order of the lists; a
\* pattern that DANGEROUS_PATTERNS has as well keeps its name.
SQL_INJECTION_PATTERNS ==
  << "sql_keyword", "sql_comment", "sql_tautology", "sql_quoted", "sql_separator" >>
XSS_PATTERNS ==
  << "xss_script", "javascript", "vbscript", "onload", "onerror", "onclick",
     "onmouseover", "iframe", "object", "embed" >>
COMMAND_INJECTION_PATTERNS ==
  << "command_char", "hardening_command_word", "dot_dot", "system_path" >>
PATH_TRAVERSAL_PATTERNS ==
  << "dot_dot", "encoded_dot_dot", "dots_encoded_slash", "double_encoded" >>

\* re.search(pattern, s, re.IGNORECASE) for a pattern of the four sets, on a
\* lower-cased s.
hardening_re_search(pattern, s) ==
  CASE pattern = "sql_quoted" ->
         \E i \in 1..Len(s) :
           \/ QuotedAt(s, i, << "o", "r" >>)
           \/ QuotedAt(s, i, << "a", "n", "d" >>)
    [] pattern = "sql_separator" ->
         \/ HasLit(s, << ";" >>)
         \/ HasLit(s, << "|", "|" >>)
         \/ HasLit(s, << "&", "&" >>)
    [] pattern = "onmouseover" ->
         \E i \in 1..Len(s) : HandlerAt(s, i, << "o", "n", "m", "o", "u", "s", "e", "o", "v", "e", "r" >>)
    [] pattern = "iframe" -> \E i \in 1..Len(s) : TagAt(s, i, << "<", "i", "f", "r", "a", "m", "e" >>)
    [] pattern = "object" -> \E i \in 1..Len(s) : TagAt(s, i, << "<", "o", "b", "j", "e", "c", "t" >>)
    [] pattern = "embed" -> \E i \in 1..Len(s) : TagAt(s, i, << "<", "e", "m", "b", "e", "d" >>)
    [] pattern = "hardening_command_word" ->
         \E i \in 1..Len(s) : \E w \in HARDENING_COMMAND_WORDS : WordAt(s, i, w)
    [] pattern = "system_path" ->
         \/ HasLit(s, << "/", "e", "t", "c", "/", "p", "a", "s", "s", "w", "d" >>)
         \/ HasLit(s, << "/", "e", "t", "c", "/", "s", "h", "a", "d", "o", "w" >>)
         \/ HasLit(s, << "/", "p", "r", "o", "c", "/" >>)
         \/ HasLit(s, << "/", "s", "y", "s", "/" >>)
    [] pattern = "dots_encoded_slash" ->
         \/ HasLit(s, << ".", ".", "%", "2", "f" >>)
         \/ HasLit(s, << ".", ".", "%", "5", "c" >>)
    [] pattern = "double_encoded" ->
         \/ HasLit(s, << "%", "2", "5", "2", "e", "%", "2", "5", "2", "e", "%", "2", "5", "2", "f" >>)
         \/ HasLit(s, << "%", "2", "5", "2", "e", "%", "2", "5", "2", "e", "%", "2", "5", "5", "c" >>)
    [] OTHER -> re_search(pattern, s)

\* SecurityHardening.detect_sql_injection and detect_xss: the patterns are
\* searched in text.lower().
detect_sql_injection(text) ==
  \E i \in 1..Len(SQL_INJECTION_PATTERNS) :
    hardening_re_search(SQL_INJECTION_PATTERNS[i], str_lower(text))
detect_xss(text) ==
  \E i \in 1..Len(XSS_PATTERNS) : hardening_re_search(XSS_PATTERNS[i], str_lower(text))

\* SecurityHardening.detect_command_injection and detect_path_traversal: the
\* patterns are searched in text with re.IGNORECASE, which finds in text what
\* the pattern finds in the lower-cased text.
detect_command_injection(text) ==
  \E i \in 1..Len(COMMAND_INJECTION_PATTERNS) :
    hardening_re_search(COMMAND_INJECTION_PATTERNS[i], str_lower(text))
\* A variant of detect_path_traversal that knows the first pattern of its
\* set only: the formula of C19 tells it from detect_path_traversal.
detect_path_traversal_plain(text) ==
  hardening_re_search(PATH_TRAVERSAL_PATTERNS[1], str_lower(text))
detect_path_traversal(text) ==
  \E i \in 1..Len(PATH_TRAVERSAL_PATTERNS) :
    hardening_re_search(PATH_TRAVERSAL_PATTERNS[i], str_lower(text))

\* The str branch of SecurityHardening.validate_input.
hardening_validate_str(text) ==
  ~ ( \/ detect_sql_injection(text)
      \/ detect_xss(text)
      \/ detect_command_injection(text)
      \/ detect_path_traversal(text) )

\* SecurityHardening.validate_input
RECURSIVE hardening_validate_input(_)
hardening_validate_input(data) ==
  CASE data.t = "str"  -> hardening_validate_str(data.s)
    [] data.t = "dict" ->
         \A i \in 1..Len(data.keys) :
           hardening_validate_str(data.keys[i]) /\ hardening_validate_input(data.kids[i])
    [] data.t = "list" ->
         \A i \in 1..Len(data.kids) : hardening_validate_input(data.kids[i])
    [] OTHER -> TRUE

(***************************************************************************)
(* Strings of the repository: the field names the handlers read and the    *)
(* request values of its test scripts (test_mock_api.py,                   *)
(* test-zero-vulnerabilities.py).                                          *)
(***************************************************************************)
\* "topic"
K_topic ==
  << "t", "o", "p", "i", "c" >>
\* "power_words"
K_power_words ==
  << "p", "o", "w", "e", "r", "_", "w", "o", "r", "d", "s" >>
\* "emotion"
K_emotion ==
  << "e", "m", "o", "t", "i", "o", "n" >>
\* "cta"
K_cta ==
  << "c", "t", "a" >>
\* "niche"
K_niche ==
  << "n", "i", "c", "h", "e" >>
\* "content"
K_content ==
  << "c", "o", "n", "t", "e", "n", "t" >>
\* "hashtags"
K_hashtags ==
  << "h", "a", "s", "h", "t", "a", "g", "s" >>
\* "style"
K_style ==
  << "s", "t", "y", "l", "e" >>
\* "action"
K_action ==
  << "a", "c", "t", "i", "o", "n" >>
\* "Instagram Growth Strategies"
TOPIC ==
  << "I", "n", "s", "t", "a", "g", "r", "a", "m", " ", "G", "r", "o", "w",
     "t", "h", " ", "S", "t", "r", "a", "t", "e", "g", "i", "e", "s" >>
\* "proven, explosive, secret, ultimate, guaranteed"
POWER_WORDS ==
  << "p", "r", "o", "v", "e", "n", ",", " ", "e", "x", "p", "l", "o", "s",
     "i", "v", "e", ",", " ", "s", "e", "c", "r", "e", "t", ",", " ", "u",
     "l", "t", "i", "m", "a", "t", "e", ",", " ", "g", "u", "a", "r", "a",
     "n", "t", "e", "e", "d" >>
\* "motivation and urgency"
EMOTION ==
  << "m", "o", "t", "i", "v", "a", "t", "i", "o", "n", " ", "a", "n", "d",
     " ", "u", "r", "g", "e", "n", "c", "y" >>
\* "Save this post for later!"
CTA ==
  << "S", "a", "v", "e", " ", "t", "h", "i", "s", " ", "p", "o", "s", "t",
     " ", "f", "o", "r", " ", "l", "a", "t", "e", "r", "!" >>
\* "social media marketing"
NICHE ==
  << "s", "o", "c", "i", "a", "l", " ", "m", "e", "d", "i", "a", " ", "m",
     "a", "r", "k", "e", "t", "i", "n", "g" >>
\* "(rocket emoji) Boost your Instagram engagement with these proven strategies! Save this post for later."
POST_CONTENT ==
  << Emoji, " ", "B", "o", "o", "s", "t", " ", "y", "o", "u", "r", " ",
     "I", "n", "s", "t", "a", "g", "r", "a", "m", " ", "e", "n", "g", "a",
     "g", "e", "m", "e", "n", "t", " ", "w", "i", "t", "h", " ", "t", "h",
     "e", "s", "e", " ", "p", "r", "o", "v", "e", "n", " ", "s", "t", "r",
     "a", "t", "e", "g", "i", "e", "s", "!", " ", "S", "a", "v", "e", " ",
     "t", "h", "i", "s", " ", "p", "o", "s", "t", " ", "f", "o", "r", " ",
     "l", "a", "t", "e", "r", "." >>
\* "#InstagramGrowth"
HASHTAG_GROWTH ==
  << "#", "I", "n", "s", "t", "a", "g", "r", "a", "m", "G", "r", "o", "w",
     "t", "h" >>
\* "#SocialMedia"
HASHTAG_SOCIAL ==
  << "#", "S", "o", "c", "i", "a", "l", "M", "e", "d", "i", "a" >>
\* "InstagramGrowth"
TAG_GROWTH ==
  << "I", "n", "s", "t", "a", "g", "r", "a", "m", "G", "r", "o", "w", "t",
     "h" >>
\* "AI Tools for Content Creation"
STORIES_TOPIC ==
  << "A", "I", " ", "T", "o", "o", "l", "s", " ", "f", "o", "r", " ", "C",
     "o", "n", "t", "e", "n", "t", " ", "C", "r", "e", "a", "t", "i", "o",
     "n" >>
\* "professional"
STYLE ==
  << "p", "r", "o", "f", "e", "s", "s", "i", "o", "n", "a", "l" >>
\* "'; DROP TABLE users; --"
SQL_PAYLOAD ==
  << "'", ";", " ", "D", "R", "O", "P", " ", "T", "A", "B", "L", "E", " ",
     "u", "s", "e", "r", "s", ";", " ", "-", "-" >>
\* "<script>alert('XSS')</script>"
XSS_PAYLOAD ==
  << "<", "s", "c", "r", "i", "p", "t", ">", "a", "l", "e", "r", "t", "(",
     "'", "X", "S", "S", "'", ")", "<", "/", "s", "c", "r", "i", "p", "t",
     ">" >>
\* "; cat /etc/passwd"
COMMAND_PAYLOAD ==
  << ";", " ", "c", "a", "t", " ", "/", "e", "t", "c", "/", "p", "a", "s",
     "s", "w", "d" >>
\* "../../../etc/passwd"
PATH_PAYLOAD ==
  << ".", ".", "/", ".", ".", "/", ".", ".", "/", "e", "t", "c", "/", "p",
     "a", "s", "s", "w", "d" >>
\* "test"
TEST ==
  << "t", "e", "s", "t" >>

\* Further values: ordinary English that holds a word of the patterns, text
\* with characters html.escape rewrites, one string for each kind of
\* pattern, and text with null bytes.
\* "How to update your bio"
UPDATE_TOPIC ==
  << "H", "o", "w", " ", "t", "o", " ", "u", "p", "d", "a", "t", "e", " ",
     "y", "o", "u", "r", " ", "b", "i", "o" >>
\* "Don't miss out"
QUOTE_CTA ==
  << "D", "o", "n", "'", "t", " ", "m", "i", "s", "s", " ", "o", "u", "t" >>
\* "x OR 1=1"
TAUTOLOGY ==
  << "x", " ", "O", "R", " ", "1", "=", "1" >>
\* "SELECT"
UPPER_KEYWORD ==
  << "S", "E", "L", "E", "C", "T" >>
\* "selection"
NEAR_KEYWORD ==
  << "s", "e", "l", "e", "c", "t", "i", "o", "n" >>
\* "javascript:x"
JAVASCRIPT_URL ==
  << "j", "a", "v", "a", "s", "c", "r", "i", "p", "t", ":", "x" >>
\* "onload ="
ONLOAD_ATTR ==
  << "o", "n", "l", "o", "a", "d", " ", "=" >>
\* "%2E%2e%2fetc"
ENCODED_PATH ==
  << "%", "2", "E", "%", "2", "e", "%", "2", "f", "e", "t", "c" >>
\* "Tom & Jerry"
AMPERSAND ==
  << "T", "o", "m", " ", "&", " ", "J", "e", "r", "r", "y" >>
\* "drop\x00table"
NUL_JOINED ==
  << "d", "r", "o", "p", NUL, "t", "a", "b", "l", "e" >>
\* "a\x00b"
NUL_TEXT ==
  << "a", NUL, "b" >>
\* "read"
READ ==
  << "r", "e", "a", "d" >>
\* "page"
PAGE ==
  << "p", "a", "g", "e" >>
\* "1"
ONE ==
  << "1" >>
\* "prompt"
K_prompt ==
  << "p", "r", "o", "m", "p", "t" >>
\* "write"
WRITE ==
  << "w", "r", "i", "t", "e" >>
\* "create"
CREATE ==
  << "c", "r", "e", "a", "t", "e" >>
\* "2024-01-15"
DATE ==
  << "2", "0", "2", "4", "-", "0", "1", "-", "1", "5" >>
\* "09:00"
TIME ==
  << "0", "9", ":", "0", "0" >>
\* "date"
K_date ==
  << "d", "a", "t", "e" >>
\* "time"
K_time ==
  << "t", "i", "m", "e" >>
EMPTY == << >>

\* A string one character over the limit, and strings of the limit's length
\* followed by a payload or by a character that html.escape lengthens.
LONG_TEXT == Tuple([i \in 1..(MAX_INPUT_LENGTH + 1) |-> "a"])
LONG_THEN_PAYLOAD == [i \in 1..MAX_INPUT_LENGTH |-> "a"] \o COMMAND_PAYLOAD
LONG_THEN_QUOTE == [i \in 1..(MAX_INPUT_LENGTH - 1) |-> "a"] \o << "'" >>
\* A string of the limit's length followed by a quote.
QUOTE_AFTER_LIMIT == [i \in 1..MAX_INPUT_LENGTH |-> "a"] \o << "'" >>

(***************************************************************************)
(* State                                                                   *)
(***************************************************************************)
VARIABLES
  \* mock_database["generated_content"], mock_database["instagram_posts"]
  \* and mock_database["analytics"]
  generated_content, instagram_posts, analytics,
  \* the request being answered and the response the client receives
  request, response,
  \* the route function whose body ran for that request ("none": none did)
  handler_run,
  \* MCPManager.mock_mode: the environment's MOCK_MODE is unset or 'true'
  mock_mode,
  \* a call of sanitize_input / validate_input on its own: the argument,
  \* which call was made, and the two return values
  fn_input, fn_op, fn_sanitized, fn_valid,
  \* a call of MCPManager.call_tool on its own: the tool name and the
  \* parameters, and what the call raised or returned
  tool_call, tool_result,
  \* the threads of the development server: where each is in the route
  \* function it runs, its request and its local variable result
  threads

server_vars ==
  << generated_content, instagram_posts, analytics, request, response,
     handler_run, mock_mode >>
fn_vars == << fn_input, fn_op, fn_sanitized, fn_valid >>
mcp_vars == << tool_call, tool_result >>
vars ==
  << generated_content, instagram_posts, analytics, request, response,
     handler_run, mock_mode, fn_input, fn_op, fn_sanitized, fn_valid,
     tool_call, tool_result, threads >>

(***************************************************************************)
(* JSON trees given to sanitize_input and validate_input                   *)
(***************************************************************************)
\* How deep the lists and dicts of the trees are nested.
MaxDepth == 2

SampleStrings ==
  { TOPIC, CTA, POST_CONTENT, HASHTAG_GROWTH, SQL_PAYLOAD, XSS_PAYLOAD,
    COMMAND_PAYLOAD, PATH_PAYLOAD, UPDATE_TOPIC, QUOTE_CTA, TAUTOLOGY,
    UPPER_KEYWORD, NEAR_KEYWORD, JAVASCRIPT_URL, ONLOAD_ATTR, ENCODED_PATH,
    AMPERSAND, NUL_JOINED, NUL_TEXT, EMPTY }

Scalars ==
  {JStr(s) : s \in SampleStrings}
    \cup {JNum(0), JNum(7), JBool(TRUE), JBool(FALSE), JNull}

\* Keys of the dicts: a field name and a key that holds a payload.
SampleKeys == {K_topic, COMMAND_PAYLOAD}

\* Every tree of S as the only item of a list, as the second item of a list,
\* as the value of a one-key dict and as the second value of a two-key dict.
Wrap(S) ==
  {JList(<< v >>) : v \in S}
    \cup {JList(<< JStr(NICHE), v >>) : v \in S}
    \cup {JDict(<< k >>, << v >>) : k \in SampleKeys, v \in S}
    \cup {JDict(<< K_niche, K_topic >>, << JStr(NICHE), v >>) : v \in S}

RECURSIVE Nest(_)
Nest(d) ==
  IF d = 0 THEN Scalars \cup {JList(<< >>), JDict(<< >>, << >>)}
  ELSE LET prev == Nest(d - 1) IN prev \cup Wrap(prev)

\* Trees that hold a string longer than the limit.
LongTrees ==
  { JStr(LONG_TEXT), JStr(LONG_THEN_PAYLOAD), JStr(LONG_THEN_QUOTE),
    JList(<< JStr(NICHE), JStr(LONG_THEN_QUOTE) >>),
    JDict(<< K_topic >>, << JList(<< JStr(LONG_THEN_PAYLOAD) >>) >>) }

JsonTrees == Nest(MaxDepth) \cup LongTrees

(***************************************************************************)
(* HTTP requests                                                           *)
(*   is_json     the Content-Type is application/json (request.is_json)    *)
(*   well_formed the body parses as JSON; json is the parsed value         *)
(*   args        the query string, one <<key, value>> pair for each        *)
(*               key=value of it, in its order (a key may occur again)     *)
(*   tool_name   the <tool_name> part of the path /mcp/<tool_name>         *)
(***************************************************************************)
Req(method, path, tool_name, is_json, well_formed, json, args) ==
  [ method |-> method, path |-> path, tool_name |-> tool_name,
    is_json |-> is_json, well_formed |-> well_formed, json |-> json,
    args |-> args ]

Get(path, args) == Req("GET", path, "", FALSE, FALSE, JNull, args)
Post(path, json, args) == Req("POST", path, "", TRUE, TRUE, json, args)
PostTool(tool_name, json) ==
  Req("POST", "/mcp/<tool_name>", tool_name, TRUE, TRUE, json, << >>)

\* Query strings: none, ?page=1, ?page=<payload>, ?<payload>=1 and
\* ?page=1&page=<payload>.
NoArgs == << >>
PlainArgs == << << PAGE, ONE >> >>
PayloadValueArgs == << << PAGE, XSS_PAYLOAD >> >>
PayloadKeyArgs == << << COMMAND_PAYLOAD, ONE >> >>
RepeatedKeyArgs == << << PAGE, ONE >>, << PAGE, XSS_PAYLOAD >> >>

\* JSON bodies.
REQUIRED_AI_FIELDS == << K_topic, K_power_words, K_emotion, K_cta, K_niche >>
REQUIRED_POST_FIELDS == << K_content, K_hashtags >>

AiData(topic, cta) ==
  JDict(REQUIRED_AI_FIELDS,
        << JStr(topic), JStr(POWER_WORDS), JStr(EMOTION), JStr(cta), JStr(NICHE) >>)
\* ai_test_data of test_mock_api.py
AI_TEST_DATA == AiData(TOPIC, CTA)
\* The payloads of test_injection_prevention.
InjectionData(payload) ==
  JDict(<< K_topic, K_power_words >>, << JStr(payload), JStr(TEST) >>)
INJECTION_PAYLOADS == {SQL_PAYLOAD, XSS_PAYLOAD, COMMAND_PAYLOAD, PATH_PAYLOAD}
\* Objects that lack a required field.
EMPTY_OBJECT == JDict(<< >>, << >>)
TOPIC_ONLY == JDict(<< K_topic >>, << JStr(TOPIC) >>)
NO_NICHE ==
  JDict(<< K_topic, K_power_words, K_emotion, K_cta >>,
        << JStr(TOPIC), JStr(POWER_WORDS), JStr(EMOTION), JStr(CTA) >>)
\* A body that is no object.
FIELD_LIST == JList(<< JStr(K_topic), JStr(K_content) >>)
\* instagram_test_data and stories_test_data of test_mock_api.py
INSTAGRAM_TEST_DATA ==
  JDict(REQUIRED_POST_FIELDS,
        << JStr(POST_CONTENT),
           JList(<< JStr(HASHTAG_GROWTH), JStr(HASHTAG_SOCIAL) >>) >>)
INSTAGRAM_PLAIN_DATA ==
  JDict(REQUIRED_POST_FIELDS,
        << JStr(POST_CONTENT), JList(<< JStr(TAG_GROWTH) >>) >>)
CONTENT_ONLY == JDict(<< K_content >>, << JStr(POST_CONTENT) >>)
HASHTAGS_ONLY == JDict(<< K_hashtags >>, << JList(<< JStr(TAG_GROWTH) >>) >>)
STORIES_TEST_DATA == JDict(<< K_topic, K_style >>, << JStr(STORIES_TOPIC), JStr(STYLE) >>)
\* Parameters of MCP tools.
READ_PARAMS == JDict(<< K_action >>, << JStr(READ) >>)
CREATE_PARAMS ==
  JDict(<< K_action, K_date, K_time, K_content >>,
        << JStr(CREATE), JStr(DATE), JStr(TIME), JStr(TOPIC) >>)
WRITE_NUMBER_PARAMS == JDict(<< K_action, K_content >>, << JStr(WRITE), JNum(7) >>)
PROMPT_LIST_PARAMS == JDict(<< K_prompt >>, << JList(<< JStr(TOPIC) >>) >>)

AiBodies ==
  { AI_TEST_DATA, EMPTY_OBJECT, TOPIC_ONLY, NO_NICHE, FIELD_LIST,
    AiData(UPDATE_TOPIC, CTA), AiData(TOPIC, QUOTE_CTA),
    AiData(NUL_JOINED, CTA), AiData(LONG_THEN_PAYLOAD, CTA),
    AiData(QUOTE_AFTER_LIMIT, CTA) }
    \cup {InjectionData(p) : p \in INJECTION_PAYLOADS}

AI_PATHS == {"/ai/claude/generate", "/ai/openai/generate", "/ai/compare"}
MCP_ALIASES ==
  { "/mcp/filesystem", "/mcp/research", "/mcp/images", "/mcp/calendar",
    "/mcp/analytics", "/mcp/hashtags" }
TOOL_NAMES ==
  { "file_manager", "content_research", "image_generator",
    "calendar_manager", "analytics_tracker", "hashtag_optimizer" }

Requests ==
  {Get(p, a) : p \in {"/", "/health", "/analytics"}, a \in {NoArgs, PayloadValueArgs}}
    \cup {Get("/mcp/tools", a) :
            a \in {NoArgs, PlainArgs, PayloadValueArgs, PayloadKeyArgs, RepeatedKeyArgs}}
    \cup {Post("/ai/claude/generate", b, NoArgs) : b \in AiBodies}
    \cup {Post(p, b, NoArgs) :
            p \in {"/ai/openai/generate", "/ai/compare"},
            b \in {AI_TEST_DATA, NO_NICHE, InjectionData(SQL_PAYLOAD)}}
    \cup {Post(p, AI_TEST_DATA, a) :
            p \in AI_PATHS, a \in {PayloadValueArgs, RepeatedKeyArgs}}
    \cup {Post("/ai/stories", b, NoArgs) :
            b \in {STORIES_TEST_DATA, EMPTY_OBJECT, InjectionData(XSS_PAYLOAD)}}
    \cup {Post("/instagram/post", b, NoArgs) :
            b \in { INSTAGRAM_TEST_DATA, INSTAGRAM_PLAIN_DATA, CONTENT_ONLY,
                    HASHTAGS_ONLY, EMPTY_OBJECT, InjectionData(PATH_PAYLOAD) }}
    \cup {PostTool(t, READ_PARAMS) : t \in TOOL_NAMES \cup {"unknown_tool"}}
    \cup {PostTool("unknown_tool", EMPTY_OBJECT)}
    \* a URL that no route is registered for
    \cup {Get("/favicon.ico", NoArgs)}
    \cup {PostTool("calendar_manager", b) :
            b \in {CREATE_PARAMS, WRITE_NUMBER_PARAMS, PROMPT_LIST_PARAMS, EMPTY_OBJECT}}
    \cup {Post(p, READ_PARAMS, NoArgs) : p \in MCP_ALIASES}
    \cup {Post("/mcp/calendar", CREATE_PARAMS, NoArgs)}
    \* a body that is not JSON, and a JSON Content-Type with a body that
    \* does not parse
    \cup {Req("POST", p, "", FALSE, FALSE, JNull, NoArgs) :
            p \in {"/ai/claude/generate", "/instagram/post"}}
    \cup {Req("POST", p, "", TRUE, FALSE, JNull, NoArgs) :
            p \in {"/ai/claude/generate", "/instagram/post"}}

(***************************************************************************)
(* security_middleware                                                     *)
(***************************************************************************)
\* request.args.items(): the MultiDict yields every key once, with the first
\* of the values the query string gives it.
args_items(args) ==
  {args[i] : i \in {j \in 1..Len(args) : \A k \in 1..(j - 1) : args[k][1] # args[j][1]}}

\* What the try block of the JSON check raises ("none": nothing).
\* request.get_json() raises BadRequest on a body that does not parse;
\* abort(400, description="Invalid input detected") raises an HTTPException.
json_check_raises(r) ==
  IF ~r.is_json THEN "none"
  ELSE IF ~r.well_formed THEN "BadRequest"
  ELSE IF Truthy(r.json) /\ ~validate_input(sanitize_input(r.json))
       THEN "HTTPException: Invalid input detected"
  ELSE "none"

\* except Exception as e: abort(400, description="Invalid JSON").  Both
\* exceptions of the try block are instances of Exception.
json_check_abort(r) ==
  IF json_check_raises(r) # "none" THEN "Invalid JSON" ELSE "none"

\* The loop over the query parameters.
query_check_abort(r) ==
  IF \E kv \in args_items(r.args) : ~validate_str(kv[1]) \/ ~validate_str(kv[2])
  THEN "Invalid query parameter"
  ELSE "none"

\* The description of the abort(400) that ends the middleware, "none" if it
\* goes on to call the route function.
middleware_abort(r) ==
  IF json_check_abort(r) # "none" THEN json_check_abort(r) ELSE query_check_abort(r)

\* A variant of the middleware that leaves the parsed body in the request's
\* cache: the formula of C15 tells it from cached_json.
cached_json_as_parsed(r) == r.json

\* request._cached_json after the middleware: the sanitized tree when the
\* parsed body is truthy, else the parsed body.
cached_json(r) ==
  IF r.is_json /\ r.well_formed /\ Truthy(r.json) THEN sanitize_input(r.json) ELSE r.json

\* The middleware's checks of every request, computed once.
MiddlewareTable ==
  [r \in Requests |-> [abort |-> middleware_abort(r), json |-> cached_json(r)]]

(***************************************************************************)
(* Responses                                                               *)
(***************************************************************************)
JSON_HEADERS == "Content-Type" :> "application/json"
HTML_HEADERS == "Content-Type" :> "text/html; charset=utf-8"

\* The headers the middleware sets on the value the route function returns.
SECURITY_HEADERS ==
  "X-Content-Type-Options" :> "nosniff"
    @@ "X-Frame-Options" :> "DENY"
    @@ "X-XSS-Protection" :> "1; mode=block"
    @@ "Content-Security-Policy" :> "default-src 'self'"
    @@ "Referrer-Policy" :> "strict-origin-when-cross-origin"

MOCK_COST == "$0.00 (Mock)"

\* An f-string message: its text, the field name and the exception it names.
Message(text, field, error) == [text |-> text, field |-> field, error |-> error]

\* success_response(data, message): a Response object.
success_response(data, message) ==
  [ obj |-> "Response", code |-> 200, headers |-> JSON_HEADERS,
    body |-> [status |-> "success", message |-> message, data |-> data, cost |-> MOCK_COST] ]

\* error_response(message, code): the tuple (Response, code).
error_response(message, code) ==
  [ obj |-> "tuple", code |-> code, headers |-> JSON_HEADERS,
    body |-> [status |-> "error", message |-> message] ]

\* The response of an abort(code, description).
abort_response(code, description) ==
  [ obj |-> "Response", code |-> code, headers |-> HTML_HEADERS,
    body |-> [status |-> "abort", description |-> description] ]

\* if hasattr(response, 'headers'): response.headers[...] = ...
\* A Response has the attribute, a tuple has not.
add_security_headers(ret) ==
  IF ret.obj = "Response"
  THEN [ret EXCEPT !.headers = SECURITY_HEADERS @@ @]
  ELSE ret

(***************************************************************************)
(* Route functions.  Each is given the request, the value request.get_json()*)
(* has for it (data) and the mock database as log_request left it, and     *)
(* yields the value it returns (ret) with the database as it leaves it     *)
(* (gc, ip, an).  The text drawn at random from   *)
(* sample_posts, the random numbers of a post and the timestamps are left  *)
(* out of the results.                                                     *)
(***************************************************************************)
Outcome(ret, gc, ip, an) == [ret |-> ret, gc |-> gc, ip |-> ip, an |-> an]

\* key in d, d[key] and d.get(key, default) of a dict
has_key(d, key) == \E i \in 1..Len(d.keys) : d.keys[i] = key
dict_item(d, key) == d.kids[CHOOSE i \in 1..Len(d.keys) : d.keys[i] = key]
dict_get(d, key, default) == IF has_key(d, key) THEN dict_item(d, key) ELSE default

\* field in data, for the values on which Python defines it: a key of a
\* dict, an item of a list, a substring of a str.
python_in(field, data) ==
  CASE data.t = "dict" -> has_key(data, field)
    [] data.t = "list" -> \E i \in 1..Len(data.kids) : data.kids[i] = JStr(field)
    [] data.t = "str"  -> HasLit(data.s, field)
    [] OTHER -> FALSE

\* A variant of the loop over required_fields that reports the last missing
\* field: the formula of C10 tells it from required_fields_check.
required_fields_check_last(fields, data) ==
  IF data.t \in {"num", "bool", "null"}
  THEN [error |-> "TypeError", missing |-> << >>]
  ELSE LET lacking == {i \in 1..Len(fields) : ~python_in(fields[i], data)}
       IN  IF lacking = {} THEN [error |-> "none", missing |-> << >>]
           ELSE [ error |-> "none",
                  missing |-> fields[CHOOSE i \in lacking : \A j \in lacking : i >= j] ]

\* for field in required_fields: if field not in data: return error_response
\*   error = "TypeError": data is a number, a bool or None, "in" raises
\*   missing: the first field that is not in data (<< >>: none is missing)
required_fields_check(fields, data) ==
  IF data.t \in {"num", "bool", "null"}
  THEN [error |-> "TypeError", missing |-> << >>]
  ELSE LET lacking == {i \in 1..Len(fields) : ~python_in(fields[i], data)}
       IN  IF lacking = {} THEN [error |-> "none", missing |-> << >>]
           ELSE [ error |-> "none",
                  missing |-> fields[CHOOSE i \in lacking : \A j \in lacking : i <= j] ]

\* What request.get_json() raises in a route function ("none": nothing):
\* a request whose Content-Type is not JSON gets 415 Unsupported Media Type.
get_json_raises(r) == IF r.is_json THEN "none" ELSE "UnsupportedMediaType"

\* The body of claude_generate, openai_generate and ai_compare up to the
\* call of the generator: "ok", or the error_response they return.
ai_request_error(r, data, failed) ==
  LET check == required_fields_check(REQUIRED_AI_FIELDS, data)
  IN  IF get_json_raises(r) # "none"
        THEN error_response(Message(failed, << >>, get_json_raises(r)), 400)
      ELSE IF check.error # "none"
        THEN error_response(Message(failed, << >>, check.error), 400)
      ELSE IF check.missing # << >>
        THEN error_response(Message("Missing required field: ", check.missing, "none"), 400)
      ELSE IF data.t # "dict"
        \* data['topic'] on a list or a str
        THEN error_response(Message(failed, << >>, "TypeError"), 400)
      ELSE [obj |-> "none"]

\* The five arguments of the generator calls.
generator_args(data) ==
  [i \in 1..Len(REQUIRED_AI_FIELDS) |-> dict_get(data, REQUIRED_AI_FIELDS[i], JNull)]

\* MockAIGenerator.generate_with_claude_mock
generate_with_claude_mock(args) ==
  [provider |-> "Claude (Mock)", content |-> args, model |-> "claude-3-sonnet-mock", cost |-> MOCK_COST]

\* MockAIGenerator.generate_with_openai_mock
generate_with_openai_mock(args) ==
  [provider |-> "OpenAI (Mock)", content |-> args, model |-> "gpt-3.5-turbo-mock", cost |-> MOCK_COST]

\* MockAIGenerator.compare_outputs_mock
compare_outputs_mock(args) ==
  [claude |-> generate_with_claude_mock(args), openai |-> generate_with_openai_mock(args)]

\* MockAIGenerator.generate_stories_mock
generate_stories_mock(topic, style) ==
  [provider |-> "Mock Stories", content |-> << topic >>, model |-> "stories-mock",
   type |-> "stories", cost |-> MOCK_COST]

\* A variant of the id assignment that numbers from zero: the formula of C9
\* tells it from with_id.
with_id_from_zero(result, gc) == ("id" :> Len(gc)) @@ result

\* result['id'] = len(mock_database["generated_content"]) + 1
with_id(result, gc) == ("id" :> (Len(gc) + 1)) @@ result

\* claude_generate
claude_generate(r, data, gc, ip, an) ==
  LET err == ai_request_error(r, data, "Claude generation failed: ")
      result == with_id(generate_with_claude_mock(generator_args(data)), gc)
  IN  IF err.obj # "none" THEN Outcome(err, gc, ip, an)
      ELSE Outcome(success_response(result, "Claude content generated successfully"),
                   Append(gc, result), ip,
                   [an EXCEPT !.ai_generations = @ + 1])

\* openai_generate
openai_generate(r, data, gc, ip, an) ==
  LET err == ai_request_error(r, data, "OpenAI generation failed: ")
      result == with_id(generate_with_openai_mock(generator_args(data)), gc)
  IN  IF err.obj # "none" THEN Outcome(err, gc, ip, an)
      ELSE Outcome(success_response(result, "OpenAI content generated successfully"),
                   Append(gc, result), ip,
                   [an EXCEPT !.ai_generations = @ + 1])

\* ai_compare
ai_compare(r, data, gc, ip, an) ==
  LET err == ai_request_error(r, data, "AI comparison failed: ")
      comparison_result ==
        [ comparison_id |-> Len(gc) + 1,
          providers |-> compare_outputs_mock(generator_args(data)),
          total_cost |-> MOCK_COST ]
  IN  IF err.obj # "none" THEN Outcome(err, gc, ip, an)
      ELSE Outcome(success_response(comparison_result, "AI comparison completed successfully"),
                   Append(gc, comparison_result), ip,
                   [an EXCEPT !.ai_generations = @ + 2])

\* "General Topic" and "casual", the defaults of generate_stories
GENERAL_TOPIC == << "G", "e", "n", "e", "r", "a", "l", " ", "T", "o", "p", "i", "c" >>
CASUAL == << "c", "a", "s", "u", "a", "l" >>

\* generate_stories
generate_stories(r, data, gc, ip, an) ==
  LET failed == "Stories generation failed: "
      result ==
        with_id(generate_stories_mock(dict_get(data, K_topic, JStr(GENERAL_TOPIC)),
                                      dict_get(data, K_style, JStr(CASUAL))), gc)
  IN  IF get_json_raises(r) # "none"
        THEN Outcome(error_response(Message(failed, << >>, get_json_raises(r)), 400), gc, ip, an)
      ELSE IF data.t # "dict"
        \* data.get on a value that is no dict
        THEN Outcome(error_response(Message(failed, << >>, "AttributeError"), 400), gc, ip, an)
      ELSE Outcome(success_response(result, "Instagram Stories generated successfully"),
                   Append(gc, result), ip, an)

\* instagram_post
instagram_post(r, data, gc, ip, an) ==
  LET failed == "Instagram posting failed: "
      check == required_fields_check(REQUIRED_POST_FIELDS, data)
      post_result ==
        [ post_id |-> "mock_post", status |-> "published",
          content |-> dict_get(data, K_content, JNull),
          hashtags |-> dict_get(data, K_hashtags, JNull) ]
  IN  IF get_json_raises(r) # "none"
        THEN Outcome(error_response(Message(failed, << >>, get_json_raises(r)), 400), gc, ip, an)
      ELSE IF check.error # "none"
        THEN Outcome(error_response(Message(failed, << >>, check.error), 400), gc, ip, an)
      ELSE IF check.missing # << >>
        THEN Outcome(error_response(Message("Missing required field: ", check.missing, "none"), 400),
                     gc, ip, an)
      ELSE IF data.t # "dict"
        THEN Outcome(error_response(Message(failed, << >>, "TypeError"), 400), gc, ip, an)
      ELSE Outcome(success_response(post_result, "Instagram post published successfully"),
                   gc, Append(ip, post_result),
                   [an EXCEPT !.instagram_posts = @ + 1])

\* seq[-5:]
RECENT_ITEMS == 5
last_items(seq) ==
  IF Len(seq) > RECENT_ITEMS THEN SubSeq(seq, Len(seq) - RECENT_ITEMS + 1, Len(seq)) ELSE seq

\* get_analytics
get_analytics(r, gc, ip, an) ==
  Outcome(success_response([ analytics |-> an, recent_content |-> last_items(gc),
                             recent_posts |-> last_items(ip) ],
                           "Analytics retrieved successfully"),
          gc, ip, an)

\* health_check
health_check(r, gc, ip, an) ==
  Outcome(success_response([service |-> "Mock API Server", status |-> "healthy"], "Success"),
          gc, ip, an)

\* dashboard: render_template_string returns the page as a str.
dashboard(r, gc, ip, an) ==
  Outcome([ obj |-> "str", code |-> 200, headers |-> HTML_HEADERS,
            body |-> [status |-> "html", analytics |-> an] ],
          gc, ip, an)

(***************************************************************************)
(* MCPManager (src/mcp_integration.py).  A mock function yields            *)
(* [raises, value]: the exception it raises ("none": nothing) and the dict *)
(* it returns.                                                             *)
(***************************************************************************)
Returns(value) == [raises |-> "none", value |-> value]
Raises(exception) == [raises |-> exception, value |-> [error |-> exception]]

LIST_ACTION == << "l", "i", "s", "t" >>

\* len(x) is defined on str, list and dict
has_len(x) == x.t \in {"str", "list", "dict"}
\* hash(x) is defined on all but list and dict
hashable(x) == x.t \notin {"list", "dict"}

\* MCPManager._mock_file_manager
mock_file_manager(params) ==
  LET action == dict_get(params, K_action, JStr(READ))
  IN  IF action = JStr(READ) THEN Returns([action |-> "read"])
      ELSE IF action = JStr(WRITE)
        THEN IF has_len(dict_get(params, K_content, JStr(EMPTY)))
             THEN Returns([action |-> "write", status |-> "written"])
             ELSE Raises("TypeError")
      ELSE IF action = JStr(LIST_ACTION) THEN Returns([action |-> "list"])
      ELSE Returns([error |-> "Unknown file action"])

\* MCPManager._mock_content_research
mock_content_research(params) ==
  \* params.get('topic', 'Instagram Growth')
  Returns([topic |-> dict_get(params, K_topic,
                              JStr(<< "I", "n", "s", "t", "a", "g", "r", "a", "m", " ",
                                      "G", "r", "o", "w", "t", "h" >>))])

\* MCPManager._mock_image_generator
mock_image_generator(params) ==
  \* params.get('prompt', 'Instagram post image')
  LET prompt == dict_get(params, K_prompt,
                         JStr(<< "I", "n", "s", "t", "a", "g", "r", "a", "m", " ", "p", "o",
                                 "s", "t", " ", "i", "m", "a", "g", "e" >>))
  IN  IF hashable(prompt) THEN Returns([prompt |-> prompt, status |-> "generated"])
      ELSE Raises("TypeError")

\* MCPManager._mock_calendar_manager
mock_calendar_manager(params) ==
  LET action == dict_get(params, K_action, JStr(READ))
  IN  IF action = JStr(CREATE)
        THEN Returns([ action |-> "create", event_id |-> "event",
                       date |-> dict_get(params, K_date, JNull),
                       time |-> dict_get(params, K_time, JNull),
                       content |-> dict_get(params, K_content, JNull),
                       status |-> "scheduled" ])
      ELSE IF action = JStr(READ) THEN Returns([action |-> "read"])
      ELSE Returns([error |-> "Unknown calendar action"])

\* MCPManager._mock_analytics_tracker
mock_analytics_tracker(params) == Returns([performance |-> "above_average"])

\* MCPManager._mock_hashtag_optimizer
mock_hashtag_optimizer(params) ==
  \* params.get('niche', 'general')
  Returns([niche |-> dict_get(params, K_niche,
                              JStr(<< "g", "e", "n", "e", "r", "a", "l" >>))])

\* The dict literal mock_responses of _mock_tool_call: all six mock
\* functions are called, in this order, whichever tool was asked for.
mock_responses(params) ==
  << << "file_manager", mock_file_manager(params) >>,
     << "content_research", mock_content_research(params) >>,
     << "image_generator", mock_image_generator(params) >>,
     << "calendar_manager", mock_calendar_manager(params) >>,
     << "analytics_tracker", mock_analytics_tracker(params) >>,
     << "hashtag_optimizer", mock_hashtag_optimizer(params) >> >>

\* test_cases of test_direct_mcp (src/test_mcp_integration.py): the tool and
\* the parameters of each call.
TEST_CASES ==
  <<
    [ tool |-> "file_manager",
      params |->
        JDict(<< K_action,
                 << "p", "a", "t", "h" >> >>,
              << JStr(<< "r", "e", "a", "d" >>),
                 JStr(<< "c", "o", "n", "t", "e", "n", "t", "_", "t", "e", "m", "p", "l",
                   "a", "t", "e", "s", "/", "i", "n", "s", "t", "a", "g",
                   "r", "a", "m", "_", "p", "o", "s", "t", ".", "t", "x",
                   "t" >>) >>) ],
    [ tool |-> "content_research",
      params |->
        JDict(<< K_topic,
                 << "p", "l", "a", "t", "f", "o", "r", "m" >>,
                 << "l", "i", "m", "i", "t" >> >>,
              << JStr(<< "I", "n", "s", "t", "a", "g", "r", "a", "m", " ", "R", "e", "e",
                   "l", "s", " ", "2", "0", "2", "4" >>),
                 JStr(<< "i", "n", "s", "t", "a", "g", "r", "a", "m" >>),
                 JNum(10) >>) ],
    [ tool |-> "image_generator",
      params |->
        JDict(<< K_prompt,
                 K_style,
                 << "s", "i", "z", "e" >> >>,
              << JStr(<< "M", "o", "d", "e", "r", "n", " ", "I", "n", "s", "t", "a", "g",
                   "r", "a", "m", " ", "p", "o", "s", "t", " ", "a", "b",
                   "o", "u", "t", " ", "A", "I", " ", "a", "u", "t", "o",
                   "m", "a", "t", "i", "o", "n" >>),
                 JStr(<< "p", "r", "o", "f", "e", "s", "s", "i", "o", "n", "a", "l" >>),
                 JStr(<< "1", "0", "8", "0", "x", "1", "0", "8", "0" >>) >>) ],
    [ tool |-> "calendar_manager",
      params |->
        JDict(<< K_action,
                 K_date,
                 K_time,
                 K_content >>,
              << JStr(<< "c", "r", "e", "a", "t", "e" >>),
                 JStr(<< "2", "0", "2", "4", "-", "0", "1", "-", "1", "5" >>),
                 JStr(<< "0", "9", ":", "0", "0" >>),
                 JStr(<< "M", "o", "r", "n", "i", "n", "g", " ", "m", "o", "t", "i", "v",
                   "a", "t", "i", "o", "n", " ", "p", "o", "s", "t" >>) >>) ],
    [ tool |-> "analytics_tracker",
      params |->
        JDict(<< K_action,
                 << "p", "o", "s", "t", "_", "i", "d" >>,
                 << "m", "e", "t", "r", "i", "c", "s" >> >>,
              << JStr(<< "a", "n", "a", "l", "y", "z", "e" >>),
                 JStr(<< "i", "n", "s", "t", "a", "g", "r", "a", "m", "_", "p", "o", "s",
                   "t", "_", "1", "2", "3" >>),
                 JStr(<< "l", "i", "k", "e", "s", ",", "c", "o", "m", "m", "e", "n", "t",
                   "s", ",", "s", "h", "a", "r", "e", "s" >>) >>) ],
    [ tool |-> "hashtag_optimizer",
      params |->
        JDict(<< K_content,
                 K_niche,
                 << "t", "a", "r", "g", "e", "t", "_", "a", "u", "d", "i", "e", "n",
             "c", "e" >> >>,
              << JStr(<< "A", "m", "a", "z", "i", "n", "g", " ", "I", "n", "s", "t", "a",
                   "g", "r", "a", "m", " ", "a", "u", "t", "o", "m", "a",
                   "t", "i", "o", "n", " ", "t", "i", "p", "s", "!" >>),
                 JStr(<< "s", "o", "c", "i", "a", "l", "m", "e", "d", "i", "a" >>),
                 JStr(<< "c", "o", "n", "t", "e", "n", "t", " ", "c", "r", "e", "a", "t",
                   "o", "r", "s" >>) >>) ]
  >>

\* A variant of _mock_tool_call that answers with the response of the first
\* mock function whichever tool was asked for: the formula of C11 tells it
\* from mock_tool_call.
mock_tool_call_first_response(tool_name, params) ==
  LET all == mock_responses(params)
      raising == {i \in 1..Len(all) : all[i][2].raises # "none"}
  IN  IF params.t # "dict" THEN Raises("AttributeError")
      ELSE IF raising # {}
        THEN Raises(all[CHOOSE i \in raising : \A j \in raising : i <= j][2].raises)
      ELSE Returns([ tool |-> tool_name, status |-> "success", data |-> all[1][2].value,
                     cost |-> MOCK_COST, mock |-> TRUE ])

\* MCPManager._mock_tool_call
mock_tool_call(tool_name, params) ==
  LET all == mock_responses(params)
      raising == {i \in 1..Len(all) : all[i][2].raises # "none"}
      named == {i \in 1..Len(all) : all[i][1] = tool_name}
  IN  IF params.t # "dict" THEN Raises("AttributeError")
      ELSE IF raising # {}
        THEN Raises(all[CHOOSE i \in raising : \A j \in raising : i <= j][2].raises)
      ELSE Returns([ tool |-> tool_name, status |-> "success",
                     data |-> IF named = {} THEN [error |-> "Unknown tool"]
                              ELSE all[CHOOSE i \in named : TRUE][2].value,
                     cost |-> MOCK_COST, mock |-> TRUE ])

\* MCPManager._real_tool_call: the HTTP call succeeds (ok) or fails; the
\* failure is caught and returned as a result.
real_tool_call(tool_name, params, ok) ==
  IF ok
  THEN Returns([tool |-> tool_name, status |-> "success", data |-> [remote |-> "json"],
                cost |-> "Variable", mock |-> FALSE])
  ELSE Returns([tool |-> tool_name, status |-> "error", error |-> "Exception", mock |-> FALSE])

\* A variant of call_tool that looks at the mode before it looks at the
\* name: the formula of C13 tells it from call_tool.
call_tool_mode_first(tool_name, params, mock, ok) ==
  IF mock THEN mock_tool_call(tool_name, params)
  ELSE IF tool_name \notin TOOL_NAMES THEN Raises("ValueError")
  ELSE real_tool_call(tool_name, params, ok)

\* MCPManager.call_tool, through run_mcp_tool
call_tool(tool_name, params, mock, ok) ==
  IF tool_name \notin TOOL_NAMES THEN Raises("ValueError")
  ELSE IF mock THEN mock_tool_call(tool_name, params)
  ELSE real_tool_call(tool_name, params, ok)

\* The methods of MCPManager that a call of call_tool enters, in their order;
\* a mock function is named by its tool.  _mock_tool_call calls the six mock
\* functions in the order of mock_responses, up to the first that raises.
call_trace(tool_name, params, mock) ==
  LET all == mock_responses(params)
      raising == {i \in 1..Len(all) : all[i][2].raises # "none"}
      last == IF params.t # "dict" THEN 1
              ELSE IF raising = {} THEN Len(all)
              ELSE CHOOSE i \in raising : \A j \in raising : i <= j
  IN  IF tool_name \notin TOOL_NAMES THEN << "call_tool" >>
      ELSE IF ~mock THEN << "call_tool", "_real_tool_call" >>
      ELSE << "call_tool", "_mock_tool_call" >> \o Tuple([i \in 1..last |-> all[i][1]])

\* call_mcp_tool
call_mcp_tool(r, data, tool_name, mock, ok, gc, ip, an) ==
  LET failed == "MCP tool execution failed: "
      called == call_tool(tool_name, data, mock, ok)
      result == with_id(called.value, gc)
  IN  IF get_json_raises(r) # "none"
        THEN Outcome(error_response(Message(failed, << >>, get_json_raises(r)), 400), gc, ip, an)
      ELSE IF ~Truthy(data)
        THEN Outcome(error_response(Message("No parameters provided", << >>, "none"), 400),
                     gc, ip, an)
      ELSE IF called.raises = "ValueError"
        THEN Outcome(error_response(Message("Unknown MCP tool: ", << >>, "ValueError"), 404),
                     gc, ip, an)
      ELSE IF called.raises # "none"
        THEN Outcome(error_response(Message(failed, << >>, called.raises), 400), gc, ip, an)
      ELSE Outcome(success_response(result, "MCP tool executed successfully"),
                   Append(gc, result), ip, an)

\* MCPManager.get_available_tools and get_mcp_tools
get_mcp_tools(r, data, gc, ip, an) ==
  Outcome(success_response([tools |-> TOOL_NAMES], "MCP tools retrieved successfully"),
          gc, ip, an)

\* mcp_filesystem, mcp_research, mcp_images, mcp_calendar, mcp_analytics and
\* mcp_hashtags: the tool each passes to call_mcp_tool.
ALIAS_TOOL ==
  "/mcp/filesystem" :> "file_manager" @@ "/mcp/research" :> "content_research"
    @@ "/mcp/images" :> "image_generator" @@ "/mcp/calendar" :> "calendar_manager"
    @@ "/mcp/analytics" :> "analytics_tracker" @@ "/mcp/hashtags" :> "hashtag_optimizer"

(***************************************************************************)
(* The server: one action for each route of the application.               *)
(***************************************************************************)
\* How many requests a behaviour holds.
MaxRequests == 2

NO_REQUEST == Req("none", "none", "", FALSE, FALSE, JNull, << >>)
NO_RESPONSE == [code |-> 0, headers |-> HTML_HEADERS, body |-> [status |-> "none"]]

\* No call of call_tool on its own was made.
NO_CALL == [tool_name |-> "none", params |-> JNull]
NO_RESULT == [raises |-> "none", value |-> [status |-> "none"], trace |-> << >>]

\* How many threads answer requests at the same time.
MaxThreads == 2
Threads == 1..MaxThreads
\* A thread that answers no request.
IDLE == [pc |-> "idle", request |-> NO_REQUEST, result |-> [id |-> 0]]
NO_THREADS == [t \in Threads |-> IDLE]

\* A before_request function that does not count.
log_request_not_counting(an) == an

\* log_request, the before_request function
log_request(an) == [an EXCEPT !.total_requests = @ + 1]

\* The request r arrives for the route method path.
Arrives(r, method, path) ==
  /\ analytics.total_requests < MaxRequests
  /\ r.method = method
  /\ r.path = path

\* The response Flask makes of the value ret goes to the client; ran names
\* the route function that ran.
Answer(r, ran, ret, gc, ip, an) ==
  /\ request' = r
  /\ handler_run' = ran
  /\ response' = [code |-> ret.code, headers |-> ret.headers, body |-> ret.body]
  /\ generated_content' = gc
  /\ instagram_posts' = ip
  /\ analytics' = an
  /\ UNCHANGED << mock_mode, fn_vars, mcp_vars, threads >>

\* A route function that is registered as it is.
Plain(r, name, out) == Answer(r, name, out.ret, out.gc, out.ip, out.an)

\* decorated_function of security_middleware around the route function
\* that is called name.  m holds what the middleware makes of r: abort, the
\* description of its abort(400) ("none" when it goes on to call the route
\* function), and json, the value request.get_json() has for the route
\* function.  out is what the route function does when it is called.
Decorated(r, m, name, out) ==
  IF m.abort # "none"
  THEN Answer(r, "none", abort_response(400, m.abort),
              generated_content, instagram_posts, log_request(analytics))
  ELSE Answer(r, name, add_security_headers(out.ret), out.gc, out.ip, out.an)

Dashboard ==
  \E r \in Requests :
    /\ Arrives(r, "GET", "/")
    /\ Plain(r, "dashboard",
             dashboard(r, generated_content, instagram_posts, log_request(analytics)))

HealthCheck ==
  \E r \in Requests :
    /\ Arrives(r, "GET", "/health")
    /\ Plain(r, "health_check",
             health_check(r, generated_content, instagram_posts, log_request(analytics)))

GetAnalytics ==
  \E r \in Requests :
    /\ Arrives(r, "GET", "/analytics")
    /\ Plain(r, "get_analytics",
             get_analytics(r, generated_content, instagram_posts, log_request(analytics)))

ClaudeGenerate ==
  \E r \in Requests :
    /\ Arrives(r, "POST", "/ai/claude/generate")
    /\ LET m == MiddlewareTable[r]
       IN  Decorated(r, m, "claude_generate",
                     claude_generate(r, m.json, generated_content, instagram_posts,
                       log_request(analytics)))

OpenaiGenerate ==
  \E r \in Requests :
    /\ Arrives(r, "POST", "/ai/openai/generate")
    /\ LET m == MiddlewareTable[r]
       IN  Decorated(r, m, "openai_generate",
                     openai_generate(r, m.json, generated_content, instagram_posts,
                       log_request(analytics)))

AiCompare ==
  \E r \in Requests :
    /\ Arrives(r, "POST", "/ai/compare")
    /\ LET m == MiddlewareTable[r]
       IN  Decorated(r, m, "ai_compare",
                     ai_compare(r, m.json, generated_content, instagram_posts,
                       log_request(analytics)))

GenerateStories ==
  \E r \in Requests :
    /\ Arrives(r, "POST", "/ai/stories")
    /\ LET m == MiddlewareTable[r]
       IN  Decorated(r, m, "generate_stories",
                     generate_stories(r, m.json, generated_content, instagram_posts,
                       log_request(analytics)))

InstagramPost ==
  \E r \in Requests :
    /\ Arrives(r, "POST", "/instagram/post")
    /\ LET m == MiddlewareTable[r]
       IN  Decorated(r, m, "instagram_post",
                     instagram_post(r, m.json, generated_content, instagram_posts,
                       log_request(analytics)))

GetMcpTools ==
  \E r \in Requests :
    /\ Arrives(r, "GET", "/mcp/tools")
    /\ LET m == MiddlewareTable[r]
       IN  Decorated(r, m, "get_mcp_tools",
                     get_mcp_tools(r, m.json, generated_content, instagram_posts,
                       log_request(analytics)))

\* ok: the HTTP call of _real_tool_call succeeds.
CallMcpTool ==
  \E r \in Requests, ok \in BOOLEAN :
    /\ Arrives(r, "POST", "/mcp/<tool_name>")
    /\ LET m == MiddlewareTable[r]
       IN  Decorated(r, m, "call_mcp_tool",
                     call_mcp_tool(r, m.json, r.tool_name, mock_mode, ok,
                       generated_content, instagram_posts,
                       log_request(analytics)))

\* The six routes that call call_mcp_tool, the decorated function, with
\* the name of their tool.
McpAlias ==
  \E r \in Requests, ok \in BOOLEAN :
    /\ r.path \in MCP_ALIASES
    /\ Arrives(r, "POST", r.path)
    /\ LET m == MiddlewareTable[r]
       IN  Decorated(r, m, "call_mcp_tool",
                     call_mcp_tool(r, m.json, ALIAS_TOOL[r.path], mock_mode, ok,
                       generated_content, instagram_posts,
                       log_request(analytics)))

\* A request for a URL without a route: the before_request hook log_request
\* runs and Flask answers 404.
NotFound ==
  \E r \in Requests :
    /\ Arrives(r, "GET", "/favicon.ico")
    /\ Answer(r, "none", abort_response(404, "Not Found"),
              generated_content, instagram_posts, log_request(analytics))

Init ==
  /\ generated_content = << >>
  /\ instagram_posts = << >>
  /\ analytics = [total_requests |-> 0, ai_generations |-> 0, instagram_posts |-> 0]
  /\ request = NO_REQUEST
  /\ response = NO_RESPONSE
  /\ handler_run = "none"
  /\ mock_mode \in BOOLEAN
  /\ fn_input = JNull
  /\ fn_op = "none"
  /\ fn_sanitized = JNull
  /\ fn_valid = TRUE
  /\ tool_call = NO_CALL
  /\ tool_result = NO_RESULT
  /\ threads = NO_THREADS

Next ==
  \/ Dashboard
  \/ HealthCheck
  \/ GetAnalytics
  \/ ClaudeGenerate
  \/ OpenaiGenerate
  \/ AiCompare
  \/ GenerateStories
  \/ InstagramPost
  \/ GetMcpTools
  \/ CallMcpTool
  \/ McpAlias
  \/ NotFound

\* The server answering requests one after the other.
Spec == Init /\ [][Next]_vars

(***************************************************************************)
(* Calls of the two static methods on their own                            *)
(***************************************************************************)
FnInit ==
  /\ fn_input \in JsonTrees
  /\ fn_op = "none"
  /\ fn_sanitized = JNull
  /\ fn_valid = TRUE
  /\ generated_content = << >>
  /\ instagram_posts = << >>
  /\ analytics = [total_requests |-> 0, ai_generations |-> 0, instagram_posts |-> 0]
  /\ request = NO_REQUEST
  /\ response = NO_RESPONSE
  /\ handler_run = "none"
  /\ mock_mode = TRUE
  /\ tool_call = NO_CALL
  /\ tool_result = NO_RESULT
  /\ threads = NO_THREADS

\* sanitized = SecurityValidator.sanitize_input(data)
CallSanitize ==
  /\ fn_op = "none"
  /\ fn_op' = "sanitize"
  /\ fn_sanitized' = sanitize_input(fn_input)
  /\ UNCHANGED << fn_input, fn_valid >>
  /\ UNCHANGED << server_vars, mcp_vars, threads >>

\* valid = SecurityValidator.validate_input(data)
CallValidate ==
  /\ fn_op = "none"
  /\ fn_op' = "validate"
  /\ fn_valid' = validate_input(fn_input)
  /\ UNCHANGED << fn_input, fn_sanitized >>
  /\ UNCHANGED << server_vars, mcp_vars, threads >>

\* valid = SecurityValidator.validate_input(sanitized), as the middleware
\* calls it on the tree sanitize_input returned
CallValidateSanitized ==
  /\ fn_op = "sanitize"
  /\ fn_op' = "sanitize_validate"
  /\ fn_valid' = validate_input(fn_sanitized)
  /\ UNCHANGED << fn_input, fn_sanitized >>
  /\ UNCHANGED << server_vars, mcp_vars, threads >>

\* valid = SecurityHardening.validate_input(data)
CallHardeningValidate ==
  /\ fn_op = "none"
  /\ fn_op' = "hardening_validate"
  /\ fn_valid' = hardening_validate_input(fn_input)
  /\ UNCHANGED << fn_input, fn_sanitized >>
  /\ UNCHANGED << server_vars, mcp_vars, threads >>

FnNext ==
  \/ CallSanitize
  \/ CallValidate
  \/ CallValidateSanitized
  \/ CallHardeningValidate

\* sanitize_input and validate_input called on a JSON tree.
SpecFn == FnInit /\ [][FnNext]_vars

(***************************************************************************)
(* Calls of MCPManager.call_tool on its own                                *)
(***************************************************************************)
\* The parameters of the calls: those of test_direct_mcp, and parameters
\* with an action of another kind, a content that has no len(), a prompt
\* that has no hash(), no key at all, and a list in the place of the dict.
McpParams ==
  {TEST_CASES[i].params : i \in 1..Len(TEST_CASES)}
    \cup { READ_PARAMS, CREATE_PARAMS, WRITE_NUMBER_PARAMS, PROMPT_LIST_PARAMS,
           EMPTY_OBJECT, FIELD_LIST }

McpInit ==
  /\ tool_call = NO_CALL
  /\ tool_result = NO_RESULT
  /\ threads = NO_THREADS
  /\ mock_mode \in BOOLEAN
  /\ generated_content = << >>
  /\ instagram_posts = << >>
  /\ analytics = [total_requests |-> 0, ai_generations |-> 0, instagram_posts |-> 0]
  /\ request = NO_REQUEST
  /\ response = NO_RESPONSE
  /\ handler_run = "none"
  /\ fn_input = JNull
  /\ fn_op = "none"
  /\ fn_sanitized = JNull
  /\ fn_valid = TRUE

\* result = await manager.call_tool(tool_name, parameters)
\* ok: the HTTP call of _real_tool_call succeeds.
CallTool ==
  \E t \in TOOL_NAMES \cup {"unknown_tool"}, p \in McpParams, ok \in BOOLEAN :
    /\ tool_call' = [tool_name |-> t, params |-> p]
    /\ tool_result' =
         [ raises |-> call_tool(t, p, mock_mode, ok).raises,
           value |-> call_tool(t, p, mock_mode, ok).value,
           trace |-> call_trace(t, p, mock_mode) ]
    /\ UNCHANGED << server_vars, fn_vars, threads >>

McpNext == CallTool

\* call_tool called on a manager in mock mode or in real mode.
SpecMcp == McpInit /\ [][McpNext]_vars

(***************************************************************************)
(* The development server with threads: app.run() of Flask answers each    *)
(* request in a thread of its own, and a thread may be preempted between   *)
(* two statements of a route function.  The steps of a thread are the     *)
(* statements of the route function that read or write mock_database.      *)
(***************************************************************************)
\* Requests of the threads: one for each route function that appends to
\* generated_content, and one that is answered with an error.
ThreadRequests ==
  {Post(p, AI_TEST_DATA, NoArgs) : p \in AI_PATHS}
    \cup { Post("/ai/stories", STORIES_TEST_DATA, NoArgs),
           Post("/mcp/filesystem", READ_PARAMS, NoArgs),
           Post("/ai/claude/generate", NO_NICHE, NoArgs) }

\* The route function of the request r, called on the database gc, ip, an.
route_function(r, gc, ip, an) ==
  LET data == MiddlewareTable[r].json
  IN  CASE r.path = "/ai/claude/generate" -> claude_generate(r, data, gc, ip, an)
        [] r.path = "/ai/openai/generate" -> openai_generate(r, data, gc, ip, an)
        [] r.path = "/ai/compare" -> ai_compare(r, data, gc, ip, an)
        [] r.path = "/ai/stories" -> generate_stories(r, data, gc, ip, an)
        [] r.path \in MCP_ALIASES ->
             call_mcp_tool(r, data, ALIAS_TOOL[r.path], mock_mode, TRUE, gc, ip, an)

\* The route function of r appends an entry to generated_content.
appends_entry(r) ==
  Len(route_function(r, generated_content, instagram_posts, analytics).gc)
    > Len(generated_content)

ThreadInit ==
  /\ threads = NO_THREADS
  /\ generated_content = << >>
  /\ instagram_posts = << >>
  /\ analytics = [total_requests |-> 0, ai_generations |-> 0, instagram_posts |-> 0]
  /\ request = NO_REQUEST
  /\ response = NO_RESPONSE
  /\ handler_run = "none"
  /\ mock_mode = TRUE
  /\ fn_input = JNull
  /\ fn_op = "none"
  /\ fn_sanitized = JNull
  /\ fn_valid = TRUE
  /\ tool_call = NO_CALL
  /\ tool_result = NO_RESULT

\* A request arrives and the thread t is started for it: log_request runs,
\* then the middleware, which lets the request through.
Receive(t) ==
  \E r \in ThreadRequests :
    /\ threads[t].pc = "idle"
    /\ analytics.total_requests < MaxRequests
    /\ MiddlewareTable[r].abort = "none"
    /\ analytics' = log_request(analytics)
    /\ threads' = [threads EXCEPT ![t] = [IDLE EXCEPT !.pc = "called", !.request = r]]
    /\ UNCHANGED << generated_content, instagram_posts, request, response, handler_run,
                    mock_mode, fn_vars, mcp_vars >>

\* result['id'] = len(mock_database["generated_content"]) + 1, or the dict
\* comparison_result with its comparison_id: the length is read and the
\* entry is made, in the thread's local variable.
AssignId(t) ==
  LET out == route_function(threads[t].request, generated_content, instagram_posts, analytics)
  IN  /\ threads[t].pc = "called"
      /\ appends_entry(threads[t].request)
      /\ threads' = [threads EXCEPT ![t].pc = "assigned", ![t].result = out.gc[Len(out.gc)]]
      /\ UNCHANGED << server_vars, fn_vars, mcp_vars >>

\* mock_database["generated_content"].append(result)
AppendEntry(t) ==
  /\ threads[t].pc = "assigned"
  /\ generated_content' = Append(generated_content, threads[t].result)
  /\ threads' = [threads EXCEPT ![t].pc = "appended"]
  /\ UNCHANGED << instagram_posts, analytics, request, response, handler_run, mock_mode,
                  fn_vars, mcp_vars >>

\* The rest of the route function: the ai_generations counter and the
\* response, of the entry when one was appended and of the error otherwise.
Respond(t) ==
  LET r == threads[t].request
      out == route_function(r, generated_content, instagram_posts, analytics)
      ret == IF threads[t].pc = "appended"
             THEN [out.ret EXCEPT !.body.data = threads[t].result]
             ELSE out.ret
  IN  /\ \/ threads[t].pc = "appended"
         \/ threads[t].pc = "called" /\ ~appends_entry(r)
      /\ analytics' = out.an
      /\ request' = r
      /\ handler_run' = "route_function"
      /\ response' = [ code |-> add_security_headers(ret).code,
                       headers |-> add_security_headers(ret).headers,
                       body |-> add_security_headers(ret).body ]
      /\ threads' = [threads EXCEPT ![t] = IDLE]
      /\ UNCHANGED << generated_content, instagram_posts, mock_mode, fn_vars, mcp_vars >>

ThreadNext ==
  \E t \in Threads :
    \/ Receive(t)
    \/ AssignId(t)
    \/ AppendEntry(t)
    \/ Respond(t)

\* The server answering requests in threads.
SpecThreads == ThreadInit /\ [][ThreadNext]_vars

(***************************************************************************)
(* Properties.  What the statements below call a string that matches a    *)
(* dangerous pattern, the strings of a JSON tree, plain text and a route   *)
(* wrapped by security_middleware.                                         *)
(***************************************************************************)
\* Some pattern of DANGEROUS_PATTERNS is found in s, whatever its case.
matches_dangerous(s) ==
  \E i \in 1..Len(DANGEROUS_PATTERNS) : re_search(DANGEROUS_PATTERNS[i], str_lower(s))

\* The strings of a JSON tree: its dict keys, dict values and list items at
\* every depth (and the tree itself when it is a string).
RECURSIVE strings_of(_)
strings_of(d) ==
  CASE d.t = "str"  -> {d.s}
    [] d.t = "dict" ->
         {d.keys[i] : i \in 1..Len(d.keys)}
           \cup UNION {strings_of(d.kids[i]) : i \in 1..Len(d.kids)}
    [] d.t = "list" -> UNION {strings_of(d.kids[i]) : i \in 1..Len(d.kids)}
    [] OTHER -> {}

\* The strings of the query string: every key and every value of it.
query_strings(r) == UNION {{r.args[i][1], r.args[i][2]} : i \in 1..Len(r.args)}

\* Letters, digits, spaces and , . ! only.
PLAIN_CHARS == LowerLetters \cup UpperLetters \cup Digits \cup {" ", ",", ".", "!"}
plain_text(d) == d.t = "str" /\ \A i \in 1..Len(d.s) : d.s[i] \in PLAIN_CHARS

\* A hashtag: # and letters after it.
hashtag(d) ==
  /\ d.t = "str"
  /\ Len(d.s) > 1
  /\ d.s[1] = "#"
  /\ \A i \in 2..Len(d.s) : d.s[i] \in LowerLetters \cup UpperLetters

\* The routes registered with @security_middleware.
WRAPPED_ROUTES ==
  AI_PATHS \cup {"/ai/stories", "/instagram/post", "/mcp/tools", "/mcp/<tool_name>"}

\* r carries a JSON object.
json_object(r) == r.is_json /\ r.well_formed /\ r.json.t = "dict"

\* r carries a JSON object with every field of fields.
has_fields(r, fields) ==
  json_object(r) /\ \A i \in 1..Len(fields) : has_key(r.json, fields[i])

\* r carries a JSON object without some field of fields.
lacks_field(r, fields) ==
  json_object(r) /\ \E i \in 1..Len(fields) : ~has_key(r.json, fields[i])

\* The first field of fields that the object of r is without.
first_missing(r, fields) ==
  fields[CHOOSE i \in 1..Len(fields) :
           /\ ~has_key(r.json, fields[i])
           /\ \A j \in 1..(i - 1) : has_key(r.json, fields[j])]

\* A string of the body of r, as sanitize_input leaves it, matches a
\* dangerous pattern.
sanitized_body_matches(r) ==
  \E s \in strings_of(sanitize_input(r.json)) : matches_dangerous(s)

\* sanitized_body_matches of every request, computed once.
SanitizedBodyMatches == [r \in Requests |-> sanitized_body_matches(r)]

\* The filter finds nothing in r: no string of the body as sanitize_input
\* leaves it, and no string of the query string, matches a dangerous pattern.
filter_finds_nothing(r) ==
  /\ ~SanitizedBodyMatches[r]
  /\ \A s \in query_strings(r) : ~matches_dangerous(s)

\* The mock database is as it was before the request but for total_requests.
database_unchanged ==
  /\ generated_content' = generated_content
  /\ instagram_posts' = instagram_posts
  /\ analytics'.ai_generations = analytics.ai_generations
  /\ analytics'.instagram_posts = analytics.instagram_posts

\* Exactly one entry was appended to generated_content.
one_entry_appended ==
  /\ Len(generated_content') = Len(generated_content) + 1
  /\ SubSeq(generated_content', 1, Len(generated_content)) = generated_content

\* A response carries the header name with a value.
carries(name) == name \in DOMAIN response.headers

(***************************************************************************)
(* C1 to C5: which requests the middleware inspects, what it rejects and   *)
(* which responses carry the hardening headers.                            *)
(***************************************************************************)
\* C1: the pipeline inspects every inbound request on every registered
\* route, GET /, GET /health and GET /analytics among them: a request to
\* one of these whose query string holds a string that matches a dangerous
\* pattern is answered 400 and no route function runs.
C1_EveryRouteInspected ==
  ( /\ request.path \in {"/", "/health", "/analytics"}
    /\ \E s \in query_strings(request) : matches_dangerous(s) )
    => (response.code = 400 /\ handler_run = "none")

\* The request was rejected: 400, claude_generate did not run, and
\* generated_content and ai_generations are as they were before it.
rejected_before_claude ==
  /\ response'.code = 400
  /\ handler_run' = "none"
  /\ generated_content' = generated_content
  /\ analytics'.ai_generations = analytics.ai_generations

\* C2 as stated: a POST /ai/claude/generate whose JSON body holds a string
\* that matches a dangerous pattern (an injection payload) is answered 400,
\* claude_generate does not run, and generated_content and ai_generations
\* stay as they were.
C2_AnyPayloadRejected ==
  [][ ( /\ request'.path = "/ai/claude/generate"
        /\ request'.is_json /\ request'.well_formed
        /\ \E s \in strings_of(request'.json) : matches_dangerous(s) )
        => rejected_before_claude ]_vars

\* C2, amended: a POST /ai/claude/generate whose JSON body, as sanitize_input
\* leaves it (escaped, NUL removed, cut to 10000 characters), still holds a
\* string that matches a dangerous pattern is answered 400, claude_generate
\* does not run, and generated_content and ai_generations stay as they
\* were.  The four payloads of test_injection_prevention are such bodies.
C2_SanitizedPayloadRejected ==
  /\ \A p \in INJECTION_PAYLOADS :
       \E s \in strings_of(sanitize_input(InjectionData(p))) : matches_dangerous(s)
  /\ [][ ( /\ request'.path = "/ai/claude/generate"
           /\ request'.is_json /\ request'.well_formed
           /\ SanitizedBodyMatches[request'] )
           => rejected_before_claude ]_vars

\* C2, the case reached: the SQL payload of the test is rejected after one
\* generation, whose entry and count are still there.
C2_PayloadRejectedAfterGeneration ==
  /\ request.path = "/ai/claude/generate"
  /\ request.json = InjectionData(SQL_PAYLOAD)
  /\ response.code = 400
  /\ handler_run = "none"
  /\ Len(generated_content) = 1
  /\ analytics.ai_generations = 1
  /\ analytics.total_requests = 2

\* C3: the responses to GET / and GET /health carry X-Content-Type-Options,
\* X-Frame-Options and X-XSS-Protection, and the response to GET / carries
\* Content-Security-Policy and Referrer-Policy as well.
C3_DashboardAndHealthHeaders ==
  /\ request.path \in {"/", "/health"} =>
       /\ carries("X-Content-Type-Options")
       /\ carries("X-Frame-Options")
       /\ carries("X-XSS-Protection")
  /\ request.path = "/" =>
       /\ carries("Content-Security-Policy")
       /\ carries("Referrer-Policy")

\* C4: every response to a request on a route wrapped by security_middleware
\* carries the five fixed headers with their values, whether the route
\* function returned success_response or error_response or the middleware
\* rejected the request.
C4_WrappedRouteHeaders ==
  request.path \in WRAPPED_ROUTES =>
    \A name \in DOMAIN SECURITY_HEADERS :
      carries(name) /\ response.headers[name] = SECURITY_HEADERS[name]

\* C5: on a wrapped route a request is rejected with 400 "Invalid query
\* parameter" whenever a key or a value of its query string matches a
\* dangerous pattern, the second and later values of a repeated key too.
C5_AnyQueryValueRejected ==
  ( /\ request.path \in WRAPPED_ROUTES
    /\ \E s \in query_strings(request) : matches_dangerous(s) )
    => /\ response.code = 400
       /\ response.body = [status |-> "abort", description |-> "Invalid query parameter"]

(***************************************************************************)
(* C6 and C7: validate_input and sanitize_input on a JSON tree.            *)
(***************************************************************************)
\* C6: validate_input returns False if and only if some string of the tree,
\* a dict key, a dict value or a list item at any depth, matches a
\* dangerous pattern; numbers, booleans and null never make it return
\* False.  Checked on the tree as given and on the tree sanitize_input made
\* of it.
C6_ValidateIffNoStringMatches ==
  /\ fn_op = "validate" =>
       (fn_valid = FALSE <=> \E s \in strings_of(fn_input) : matches_dangerous(s))
  /\ fn_op = "sanitize_validate" =>
       (fn_valid = FALSE <=> \E s \in strings_of(fn_sanitized) : matches_dangerous(s))

\* C6, the case reached: a dict whose one matching string is the second item
\* of a list that is its value is found invalid.
C6_NestedPayloadRejected ==
  /\ fn_op = "validate"
  /\ fn_input = JDict(<< K_topic >>, << JList(<< JStr(NICHE), JStr(XSS_PAYLOAD) >>) >>)
  /\ fn_valid = FALSE

\* got is given with every string that is a dict value or a list item
\* replaced by its escaped form without NUL, cut to MAX_INPUT_LENGTH, and
\* with the same keys, the same lengths and order and the same other
\* scalars.
RECURSIVE sanitized_as(_, _)
sanitized_as(given, got) ==
  CASE given.t = "str" ->
         /\ got.t = "str"
         /\ Len(got.s) <= MAX_INPUT_LENGTH
         /\ got.s = truncate(remove_null_bytes(html_escape(given.s)), MAX_INPUT_LENGTH)
    [] given.t = "dict" ->
         /\ got.t = "dict"
         /\ got.keys = given.keys
         /\ Len(got.kids) = Len(given.kids)
         /\ \A i \in 1..Len(given.kids) : sanitized_as(given.kids[i], got.kids[i])
    [] given.t = "list" ->
         /\ got.t = "list"
         /\ Len(got.kids) = Len(given.kids)
         /\ \A i \in 1..Len(given.kids) : sanitized_as(given.kids[i], got.kids[i])
    [] OTHER -> got = given

post_text(d) ==
  d.t = "str" /\ \A i \in 1..Len(d.s) : d.s[i] \in PLAIN_CHARS \cup {Emoji}

\* A list of at least one hashtag.
hashtag_list(d) ==
  d.t = "list" /\ Len(d.kids) > 0 /\ \A i \in 1..Len(d.kids) : hashtag(d.kids[i])

\* C8: a POST /instagram/post whose JSON body has content (plain text) and
\* hashtags (a list of hashtags such as #InstagramGrowth) is answered 200
\* with a post of status published, the post is appended to instagram_posts
\* and the instagram_posts counter goes up by one.
C8_HashtagPostPublished ==
  [][ ( /\ request'.path = "/instagram/post"
        /\ request'.args = << >>
        /\ has_fields(request', REQUIRED_POST_FIELDS)
        /\ post_text(dict_item(request'.json, K_content))
        /\ hashtag_list(dict_item(request'.json, K_hashtags)) )
        => /\ response'.code = 200
           /\ response'.body.data.status = "published"
           /\ instagram_posts' = Append(instagram_posts, response'.body.data)
           /\ analytics'.instagram_posts = analytics.instagram_posts + 1 ]_vars

\* The answer is a success at no cost, one entry was appended whose id is
\* the length of the list after the append, and ai_generations went up by
\* one.
generation_recorded ==
  /\ response'.body.status = "success"
  /\ response'.body.cost = MOCK_COST
  /\ one_entry_appended
  /\ generated_content'[Len(generated_content')].id = Len(generated_content')
  /\ analytics'.ai_generations = analytics.ai_generations + 1

\* One entry was appended that holds a claude and an openai result, and
\* ai_generations went up by two.
comparison_recorded ==
  /\ response'.body.status = "success"
  /\ one_entry_appended
  /\ {"claude", "openai"} \subseteq DOMAIN generated_content'[Len(generated_content')].providers
  /\ analytics'.ai_generations = analytics.ai_generations + 2

\* r carries the five required fields, each plain text, and no query string.
plain_ai_request(r) ==
  /\ has_fields(r, REQUIRED_AI_FIELDS)
  /\ r.args = << >>
  /\ \A i \in 1..Len(REQUIRED_AI_FIELDS) : plain_text(dict_item(r.json, REQUIRED_AI_FIELDS[i]))

\* C9 as stated: a POST /ai/claude/generate or /ai/openai/generate with the
\* five required fields in plain text returns success with cost
\* "$0.00 (Mock)", appends exactly one entry whose id is the length of the
\* list after the append and adds one to ai_generations; POST /ai/compare
\* with such a body appends exactly one entry with a claude and an openai
\* result and adds two to ai_generations.
C9_PlainTextGenerates ==
  [][ /\ ( /\ request'.path \in {"/ai/claude/generate", "/ai/openai/generate"}
           /\ plain_ai_request(request') ) => generation_recorded
      /\ ( /\ request'.path = "/ai/compare"
           /\ plain_ai_request(request') ) => comparison_recorded ]_vars

\* C9, amended: the same of a request with the five required fields in
\* which the filter finds nothing, that is no string of the body as
\* sanitize_input leaves it and no string of the query string matches a
\* dangerous pattern (the values of ai_test_data are such).
C9_FilteredRequestGenerates ==
  [][ /\ ( /\ request'.path \in {"/ai/claude/generate", "/ai/openai/generate"}
           /\ has_fields(request', REQUIRED_AI_FIELDS)
           /\ filter_finds_nothing(request') ) => generation_recorded
      /\ ( /\ request'.path = "/ai/compare"
           /\ has_fields(request', REQUIRED_AI_FIELDS)
           /\ filter_finds_nothing(request') ) => comparison_recorded ]_vars

\* C9, the case reached: ai_test_data sent to /ai/openai/generate after a
\* comparison gives the second entry, with id 2, and the third generation.
C9_SecondGenerationRecorded ==
  /\ request.path = "/ai/openai/generate"
  /\ request.json = AI_TEST_DATA
  /\ response.body.status = "success"
  /\ response.body.cost = MOCK_COST
  /\ Len(generated_content) = 2
  /\ "providers" \in DOMAIN generated_content[1]
  /\ {"claude", "openai"} \subseteq DOMAIN generated_content[1].providers
  /\ generated_content[2].id = 2
  /\ analytics.ai_generations = 3

\* The answer is the error 400 that names field, and nothing was recorded.
missing_field_reported(field) ==
  /\ response'.code = 400
  /\ response'.body =
       [status |-> "error", message |-> Message("Missing required field: ", field, "none")]
  /\ database_unchanged

\* C10 as stated: a JSON object sent to one of the three AI routes without
\* one of topic, power_words, emotion, cta, niche, or to /instagram/post
\* without content or hashtags, is answered by an error 400 that names the
\* first missing field in that order, and generated_content,
\* instagram_posts and the two counters stay as they were.
C10_MissingFieldNamed ==
  [][ /\ ( /\ request'.path \in AI_PATHS
           /\ lacks_field(request', REQUIRED_AI_FIELDS) )
           => missing_field_reported(first_missing(request', REQUIRED_AI_FIELDS))
      /\ ( /\ request'.path = "/instagram/post"
           /\ lacks_field(request', REQUIRED_POST_FIELDS) )
           => missing_field_reported(first_missing(request', REQUIRED_POST_FIELDS)) ]_vars

\* C10, amended: the same of a JSON object in which the filter finds
\* nothing, that is no string of the body as sanitize_input leaves it and
\* no string of the query string matches a dangerous pattern.
C10_FilteredMissingFieldNamed ==
  [][ /\ ( /\ request'.path \in AI_PATHS
           /\ lacks_field(request', REQUIRED_AI_FIELDS)
           /\ filter_finds_nothing(request') )
           => missing_field_reported(first_missing(request', REQUIRED_AI_FIELDS))
      /\ ( /\ request'.path = "/instagram/post"
           /\ lacks_field(request', REQUIRED_POST_FIELDS)
           /\ filter_finds_nothing(request') )
           => missing_field_reported(first_missing(request', REQUIRED_POST_FIELDS)) ]_vars

\* C10, the case reached: an object with a topic only, sent to
\* /ai/claude/generate after one generation, is answered by the error that
\* names power_words, and the entry and the count are still there.
C10_MissingPowerWordsReported ==
  /\ request.path = "/ai/claude/generate"
  /\ request.json = TOPIC_ONLY
  /\ response.code = 400
  /\ response.body =
       [status |-> "error", message |-> Message("Missing required field: ", K_power_words, "none")]
  /\ Len(generated_content) = 1
  /\ analytics.ai_generations = 1

(***************************************************************************)
(* C11 to C13 and C18: the MCP tools.                                      *)
(***************************************************************************)
\* What the mock function of the tool itself returns on params.
own_mock_function(tool_name, params) ==
  CASE tool_name = "file_manager" -> mock_file_manager(params)
    [] tool_name = "content_research" -> mock_content_research(params)
    [] tool_name = "image_generator" -> mock_image_generator(params)
    [] tool_name = "calendar_manager" -> mock_calendar_manager(params)
    [] tool_name = "analytics_tracker" -> mock_analytics_tracker(params)
    [] tool_name = "hashtag_optimizer" -> mock_hashtag_optimizer(params)

\* The methods that the last call of call_tool entered.
entered == {tool_result.trace[i] : i \in 1..Len(tool_result.trace)}

\* A call of call_tool on a registered tool was made in mock mode.
mock_call_made == mock_mode /\ tool_call.tool_name \in TOOL_NAMES

calendar_create_request(r) ==
  /\ r.method = "POST"
  /\ r.path = "/mcp/calendar"
  /\ r.is_json /\ r.well_formed
  /\ r.args = << >>
  /\ r.json.t = "dict"
  /\ dict_get(r.json, K_action, JNull) = JStr(CREATE)
  /\ \A k \in {K_date, K_time, K_content} : dict_get(r.json, k, JNull).t = "str"

\* C12: in mock mode a POST /mcp/calendar with the body {action: 'create',
\* date, time, content} is answered 200 with data.data.status 'scheduled'
\* and an event_id, and the result is appended to generated_content.
C12_CalendarCreateScheduled ==
  [][ (mock_mode /\ calendar_create_request(request'))
        => /\ response'.code = 200
           /\ response'.body.data.data.status = "scheduled"
           /\ "event_id" \in DOMAIN response'.body.data.data
           /\ generated_content' = Append(generated_content, response'.body.data) ]_vars

\* r posts to /mcp/<tool_name> with a name that is not a registered tool.
unknown_tool_request(r) ==
  /\ r.method = "POST"
  /\ r.path = "/mcp/<tool_name>"
  /\ r.tool_name \notin TOOL_NAMES

\* The answer is an error with status 404 and nothing was appended to
\* generated_content.
not_found_nothing_appended ==
  /\ response'.code = 404
  /\ response'.body.status = "error"
  /\ generated_content' = generated_content

\* C13 as stated: a POST /mcp/<tool_name> with the name of no registered
\* tool is answered with an error of status 404 and nothing is appended to
\* generated_content.
C13_UnknownToolNotFound ==
  [][ unknown_tool_request(request') => not_found_nothing_appended ]_vars

\* C13, amended: call_tool with the name of no registered tool raises
\* ValueError in mock and in real mode and enters no other method; a POST
\* /mcp/<tool_name> with such a name whose body is JSON, is not empty once
\* sanitized and holds nothing the filter finds is answered with an error
\* of status 404 and nothing is appended to generated_content.
C13_UnknownToolCallNotFound ==
  /\ \A p \in McpParams, mock \in BOOLEAN, ok \in BOOLEAN :
       /\ call_tool("unknown_tool", p, mock, ok).raises = "ValueError"
       /\ call_trace("unknown_tool", p, mock) = << "call_tool" >>
  /\ [][ ( /\ unknown_tool_request(request')
           /\ request'.is_json /\ request'.well_formed
           /\ Truthy(sanitize_input(request'.json))
           /\ filter_finds_nothing(request') )
           => not_found_nothing_appended ]_vars

\* C13, the case reached: after one generation a POST /mcp/unknown_tool with
\* parameters is answered 404 and the list still holds the one entry.
C13_UnknownToolAfterGeneration ==
  /\ unknown_tool_request(request)
  /\ request.json = READ_PARAMS
  /\ handler_run = "call_mcp_tool"
  /\ response.code = 404
  /\ response.body.message.error = "ValueError"
  /\ Len(generated_content) = 1

(***************************************************************************)
(* C14: the numbers of the entries when requests are answered in threads.  *)
(***************************************************************************)
\* The id, or the comparison_id, of an entry of generated_content.
entry_number(e) == IF "comparison_id" \in DOMAIN e THEN e.comparison_id ELSE e.id

\* C14: when requests are handled concurrently, the id / comparison_id
\* values of the entries of generated_content are pairwise distinct and the
\* k-th entry of the list carries the value k.
C14_EntryNumbersDistinctInOrder ==
  /\ \A j, k \in 1..Len(generated_content) :
       j # k => entry_number(generated_content[j]) # entry_number(generated_content[k])
  /\ \A k \in 1..Len(generated_content) : entry_number(generated_content[k]) = k

(***************************************************************************)
(* C15 and C16: what the JSON check of the middleware lets through and how *)
(* it rejects.                                                             *)
(***************************************************************************)
\* The characters that html.escape replaces.
ESCAPED_CHARS == {"&", "<", ">", "\"", "'"}

\* The string values of a JSON tree: its dict values and list items at every
\* depth that are strings (and the tree itself when it is a string).
RECURSIVE string_values(_)
string_values(d) ==
  CASE d.t = "str" -> {d.s}
    [] d.t \in {"dict", "list"} -> UNION {string_values(d.kids[i]) : i \in 1..Len(d.kids)}
    [] OTHER -> {}

\* The tree d with the NUL bytes removed from its string values and these
\* cut to 10000 characters, and nothing else changed.
RECURSIVE cut_only(_)
cut_only(d) ==
  CASE d.t = "str" -> JStr(truncate(remove_null_bytes(d.s), MAX_INPUT_LENGTH))
    [] d.t \in {"dict", "list"} ->
         [d EXCEPT !.kids = Tuple([i \in 1..Len(d.kids) |-> cut_only(d.kids[i])])]
    [] OTHER -> d

\* s has one of the escaped characters, at any place, or among its first
\* 10000 characters.
has_escaped_char(s) == \E i \in 1..Len(s) : s[i] \in ESCAPED_CHARS
has_early_escaped_char(s) ==
  \E i \in 1..Len(s) : i <= MAX_INPUT_LENGTH /\ s[i] \in ESCAPED_CHARS

\* Of every request with a JSON body that is not empty, computed once: a
\* string value of the body has an escaped character; one has it among its
\* first 10000 characters; no string value of the sanitized body has one
\* and the sanitized body is the body with NUL bytes removed and strings
\* cut, nothing else.
JsonPayloads == {r \in Requests : r.is_json /\ r.well_formed /\ Truthy(r.json)}
EscapedCharInBody ==
  [r \in JsonPayloads |-> \E s \in string_values(r.json) : has_escaped_char(s)]
EarlyEscapedCharInBody ==
  [r \in JsonPayloads |-> \E s \in string_values(r.json) : has_early_escaped_char(s)]
SanitizedOnlyCut ==
  [r \in JsonPayloads |->
     /\ \A s \in string_values(sanitize_input(r.json)) : ~has_escaped_char(s)
     /\ sanitize_input(r.json) = cut_only(r.json)]

\* The five generator arguments taken from the sanitized body of every such
\* request whose body is an object, computed once.
SanitizedArgs ==
  [r \in JsonPayloads |->
     IF r.json.t = "dict" THEN generator_args(sanitize_input(r.json)) ELSE << >>]

\* The middleware accepted the payload of the request and the route function
\* received it in sanitized form: the five values that the generators of
\* /ai/claude/generate and /ai/openai/generate return in their answer are
\* those of the sanitized body.
accepted_in_sanitized_form ==
  /\ handler_run' # "none"
  /\ ( /\ request'.path \in {"/ai/claude/generate", "/ai/openai/generate"}
       /\ response'.body.status = "success" )
       => response'.body.data.content = SanitizedArgs[request']

\* C15 as stated: a JSON payload that is not empty and that the middleware
\* accepts reaches the route function in sanitized form, no string value of
\* the sanitized tree has one of & < > " ', and the tree differs from the
\* payload only by NUL removal and the cut to 10000 characters; a payload
\* with such a character in a string value is rejected with 400.
C15_EscapedCharAlwaysRejected ==
  [][ request' \in JsonPayloads
        => /\ handler_run' # "none"
                => (accepted_in_sanitized_form /\ SanitizedOnlyCut[request'])
           /\ EscapedCharInBody[request']
                => (response'.code = 400 /\ handler_run' = "none") ]_vars

\* C15, amended: the same, but the payloads that are rejected with 400 are
\* those with such a character among the first 10000 characters of a string
\* value; a character after them may be cut away before the validation.
C15_EarlyEscapedCharRejected ==
  [][ request' \in JsonPayloads
        => /\ handler_run' # "none"
                => (accepted_in_sanitized_form /\ SanitizedOnlyCut[request'])
           /\ EarlyEscapedCharInBody[request']
                => (response'.code = 400 /\ handler_run' = "none") ]_vars

\* C15, the case reached: a topic of 10000 letters and a quote was accepted
\* and claude_generate answered with the 10000 letters left of it.
C15_QuoteCutAndAccepted ==
  /\ request.path = "/ai/claude/generate"
  /\ request.json = AiData(QUOTE_AFTER_LIMIT, CTA)
  /\ handler_run = "claude_generate"
  /\ response.code = 200
  /\ response.body.data.content[1] = JStr(SubSeq(QUOTE_AFTER_LIMIT, 1, MAX_INPUT_LENGTH))


\* The request was rejected by an abort(400) with this description.
aborted_with(description) ==
  /\ response'.code = 400
  /\ handler_run' = "none"
  /\ response'.body.status = "abort"
  /\ response'.body.description = description

\* C16: a well-formed JSON body that matches a dangerous pattern is rejected
\* with 400 and the description 'Invalid input detected', and only a body
\* that cannot be parsed as JSON is rejected with 'Invalid JSON'.
C16_RejectionCausesDistinguished ==
  [][ request'.method = "POST" /\ request'.is_json
        => /\ (request'.well_formed /\ Truthy(request'.json) /\ SanitizedBodyMatches[request'])
                => aborted_with("Invalid input detected")
           /\ aborted_with("Invalid JSON") => ~request'.well_formed ]_vars


(***************************************************************************)
(* C17: the analytics counters and the history of the requests.            *)
(***************************************************************************)
\* The number of entries of generated_content that claude_generate and
\* openai_generate appended (their provider is one of the two generators),
\* and that ai_compare appended (they carry a comparison_id).
provider_entries(gc) ==
  Cardinality({i \in 1..Len(gc) :
                 /\ "provider" \in DOMAIN gc[i]
                 /\ gc[i].provider \in {"Claude (Mock)", "OpenAI (Mock)"}})
comparison_entries(gc) == Cardinality({i \in 1..Len(gc) : "comparison_id" \in DOMAIN gc[i]})

\* The list after is the list before with entries appended, or the same.
extends(before, after) ==
  /\ Len(before) <= Len(after)
  /\ SubSeq(after, 1, Len(before)) = before

\* C17: after any sequence of requests handled one after the other,
\* analytics.instagram_posts is the length of instagram_posts and
\* ai_generations is the number of entries of claude_generate and
\* openai_generate plus twice that of ai_compare; every request received,
\* the rejected ones too, adds one to total_requests; generate_stories and
\* call_mcp_tool leave ai_generations as it is; no request removes or
\* rewrites an earlier entry or decreases a counter.
C17_CountersAgreeWithHistory ==
  /\ [] ( /\ analytics.instagram_posts = Len(instagram_posts)
          /\ analytics.ai_generations
               = provider_entries(generated_content) + 2 * comparison_entries(generated_content) )
  /\ [][ /\ analytics'.total_requests = analytics.total_requests + 1
         /\ handler_run' \in {"generate_stories", "call_mcp_tool"}
              => analytics'.ai_generations = analytics.ai_generations
         /\ extends(generated_content, generated_content')
         /\ extends(instagram_posts, instagram_posts')
         /\ analytics'.ai_generations >= analytics.ai_generations
         /\ analytics'.instagram_posts >= analytics.instagram_posts ]_vars

\* C17, the case reached: a comparison was recorded and counted twice, then
\* a request was rejected, and both requests are counted.
C17_ComparisonThenRejection ==
  /\ analytics.total_requests = 2
  /\ analytics.ai_generations = 2
  /\ comparison_entries(generated_content) = 1
  /\ response.code \in {400, 404}


\* C18: in mock mode a call of call_tool on the tool T with a dict of
\* parameters returns a success result whenever T's own mock function
\* succeeds on the parameters; what
\* the mock function of another tool does with them cannot make it raise.
C18_OnlyOwnMockFunctionMatters ==
  ( /\ mock_call_made
    /\ tool_call.params.t = "dict"
    /\ own_mock_function(tool_call.tool_name, tool_call.params).raises = "none" )
    => /\ tool_result.raises = "none"
       /\ tool_result.value.status = "success"


(***************************************************************************)
(* C19: SecurityHardening.validate_input against                           *)
(* SecurityValidator.validate_input.                                       *)
(***************************************************************************)
\* Some pattern of the four sets of SecurityHardening is found in s by the
\* detector of its set.
hardening_detects(s) ==
  detect_sql_injection(s) \/ detect_xss(s) \/ detect_command_injection(s)
    \/ detect_path_traversal(s)

====
